---- MODULE Spec2Model ----
(***************************************************************************)
(* Model of the trucking load matcher: the load matching agent             *)
(* (agents/load_matching_agent.py) and the entity extraction agent         *)
(* (agents/entity_extraction_agent.py).                                    *)
(*                                                                         *)
(* Conventions.                                                            *)
(*  - Python strings are TLA+ strings; Char(s, i) is s[i-1].               *)
(*  - An Optional value is a sequence: <<>> is None, <<v>> is the value v. *)
(*  - A criterion score is an integer number of hundredths (0.9 is 90);    *)
(*    a weight is an integer number of hundredths; overall_score is an     *)
(*    integer number of ten-thousandths (0.405 is 4050).                   *)
(*  - Tonnage and money are integers in hundredths of the unit             *)
(*    (7.5 tons is 750), lengths are integers in feet.                     *)
(***************************************************************************)
EXTENDS Integers, Sequences, FiniteSets, TLC

VARIABLES pc, entities, catalogue, results, transcript, extracted, current_text, calls,
          config, response, processing_history

vars == <<pc, entities, catalogue, results, transcript, extracted, current_text, calls,
          config, response, processing_history>>

(***************************************************************************)
(* Bounds of the model.                                                    *)
(***************************************************************************)
MaxLoads == 2

MaxTurns == 2

MaxTokens == 4

MaxCalls == 2

(***************************************************************************)
(* Optional values.                                                        *)
(***************************************************************************)
None == <<>>

Some(v) == <<v>>

IsNone(o) == o = <<>>

Get(o) == o[1]

Max(a, b) == IF a >= b THEN a ELSE b

Min(a, b) == IF a <= b THEN a ELSE b

Abs(a) == IF a >= 0 THEN a ELSE 0 - a

(***************************************************************************)
(* Python string primitives.                                               *)
(***************************************************************************)
UpperAlpha == "ABCDEFGHIJKLMNOPQRSTUVWXYZ"

LowerAlpha == "abcdefghijklmnopqrstuvwxyz"

DigitChars == {"0", "1", "2", "3", "4", "5", "6", "7", "8", "9"}

WhitespaceChars == {" ", "\n", "\t", "\r"}

Char(s, i) == SubSeq(s, i, i)

IsDigit(c) == c \in DigitChars

UpperChars == {Char(UpperAlpha, i) : i \in 1..26}

LowerChars == {Char(LowerAlpha, i) : i \in 1..26}

\* the lower-case letter of every upper-case letter
LowerOf ==
    [c \in UpperChars |->
        Char(LowerAlpha, CHOOSE i \in 1..26 : Char(UpperAlpha, i) = c)]

\* the upper-case letter of every lower-case letter
UpperOf ==
    [c \in LowerChars |->
        Char(UpperAlpha, CHOOSE i \in 1..26 : Char(LowerAlpha, i) = c)]

IsLetter(c) == c \in UpperChars \/ c \in LowerChars

\* \w of the re module, on the characters the model uses
IsWordChar(c) == IsLetter(c) \/ IsDigit(c) \/ c = "_"

LowerChar(c) == IF c \in UpperChars THEN LowerOf[c] ELSE c

UpperChar(c) == IF c \in LowerChars THEN UpperOf[c] ELSE c

RECURSIVE LowerRange(_, _, _)
LowerRange(s, lo, hi) ==
    IF lo > hi THEN ""
    ELSE IF lo = hi THEN LowerChar(Char(s, lo))
    ELSE LowerRange(s, lo, (lo + hi) \div 2) \o LowerRange(s, ((lo + hi) \div 2) + 1, hi)

\* str.lower()
Lower(s) == LowerRange(s, 1, Len(s))

\* sub in s
Contains(sub, s) ==
    \E i \in 1..(Len(s) - Len(sub) + 1) : SubSeq(s, i, i + Len(sub) - 1) = sub

StartsWithAt(s, i, sub) ==
    /\ i + Len(sub) - 1 <= Len(s)
    /\ SubSeq(s, i, i + Len(sub) - 1) = sub

RECURSIVE ReplaceFrom(_, _, _, _)
ReplaceFrom(s, old, new, i) ==
    IF i > Len(s) THEN ""
    ELSE IF StartsWithAt(s, i, old)
         THEN new \o ReplaceFrom(s, old, new, i + Len(old))
         ELSE Char(s, i) \o ReplaceFrom(s, old, new, i + 1)

\* s.replace(old, new) for a non-empty old: all non-overlapping occurrences,
\* left to right
Replace(s, old, new) == ReplaceFrom(s, old, new, 1)

RECURSIVE LStrip(_)
LStrip(s) ==
    IF Len(s) > 0 /\ Char(s, 1) \in WhitespaceChars
    THEN LStrip(SubSeq(s, 2, Len(s)))
    ELSE s

RECURSIVE RStrip(_)
RStrip(s) ==
    IF Len(s) > 0 /\ Char(s, Len(s)) \in WhitespaceChars
    THEN RStrip(SubSeq(s, 1, Len(s) - 1))
    ELSE s

\* str.strip()
Strip(s) == RStrip(LStrip(s))

AllDigits(s) == Len(s) > 0 /\ \A i \in 1..Len(s) : IsDigit(Char(s, i))

DigitVal(c) == CHOOSE d \in 0..9 : Char("0123456789", d + 1) = c

RECURSIVE DigitsToInt(_)
DigitsToInt(s) ==
    IF Len(s) = 0 THEN 0
    ELSE 10 * DigitsToInt(SubSeq(s, 1, Len(s) - 1)) + DigitVal(Char(s, Len(s)))

\* an optional sign in front of the rest of the literal
SignOf(s) == IF Len(s) > 0 /\ Char(s, 1) = "-" THEN 0 - 1 ELSE 1

Unsigned(s) ==
    IF Len(s) > 0 /\ Char(s, 1) \in {"-", "+"} THEN SubSeq(s, 2, Len(s)) ELSE s

\* int(s) on a stripped string: None stands for the ValueError
ParseInt(s) ==
    IF AllDigits(Unsigned(s))
    THEN Some(SignOf(s) * DigitsToInt(Unsigned(s)))
    ELSE None

DotPos(s) == IF Contains(".", s) THEN CHOOSE i \in 1..Len(s) : Char(s, i) = "." ELSE 0

\* float(s) on a stripped string, in hundredths: decimal literals with at
\* most two fraction digits; None stands for the ValueError
ParseFloat(s) ==
    LET u == Unsigned(s)
        p == DotPos(u)
        ip == IF p = 0 THEN u ELSE SubSeq(u, 1, p - 1)
        fp == IF p = 0 THEN "" ELSE SubSeq(u, p + 1, Len(u))
        okI == ip = "" \/ AllDigits(ip)
        okF == fp = "" \/ (AllDigits(fp) /\ Len(fp) <= 2)
        frac == IF fp = "" THEN 0
                ELSE IF Len(fp) = 1 THEN 10 * DigitsToInt(fp) ELSE DigitsToInt(fp)
    IN IF okI /\ okF /\ (ip # "" \/ fp # "")
       THEN Some(SignOf(s) * (100 * DigitsToInt(ip) + frac))
       ELSE None

(***************************************************************************)
(* Python floats (IEEE 754 binary64, round to nearest, ties to even).      *)
(* A natural number is a sequence of limbs in base 1024, least significant *)
(* first and without a leading zero limb; a float is the exact value       *)
(* (-1)^neg * m * 2^e with m a natural number of at most 53 bits.          *)
(***************************************************************************)
Base == 2 ^ 10

RECURSIVE BigOf(_)
BigOf(n) == IF n = 0 THEN <<>> ELSE <<n % Base>> \o BigOf(n \div Base)

RECURSIVE Trim(_)
Trim(a) ==
    IF Len(a) > 0 /\ a[Len(a)] = 0 THEN Trim(SubSeq(a, 1, Len(a) - 1)) ELSE a

Limb(a, i) == IF 1 <= i /\ i <= Len(a) THEN a[i] ELSE 0

RECURSIVE Carry(_, _)
\* the number whose limb sums are cols, with the carry c coming in
Carry(cols, c) ==
    IF Len(cols) = 0 THEN BigOf(c)
    ELSE <<(Head(cols) + c) % Base>> \o Carry(Tail(cols), (Head(cols) + c) \div Base)

BigAdd(a, b) ==
    Trim(Carry([i \in 1..Max(Len(a), Len(b)) |-> Limb(a, i) + Limb(b, i)], 0))

RECURSIVE Borrow(_, _, _, _)
\* a - b for a >= b, from limb i on with the borrow br
Borrow(a, b, i, br) ==
    IF i > Len(a) THEN <<>>
    ELSE IF a[i] - Limb(b, i) - br >= 0
         THEN <<a[i] - Limb(b, i) - br>> \o Borrow(a, b, i + 1, 0)
         ELSE <<a[i] - Limb(b, i) - br + Base>> \o Borrow(a, b, i + 1, 1)

BigSub(a, b) == Trim(Borrow(a, b, 1, 0))

RECURSIVE ColumnSum(_, _, _, _)
\* the sum of a[i] * b[k + 1 - i] over the limbs i.. of a
ColumnSum(a, b, k, i) ==
    IF i > Len(a) \/ i > k THEN 0
    ELSE a[i] * Limb(b, k + 1 - i) + ColumnSum(a, b, k, i + 1)

BigMul(a, b) ==
    IF Len(a) = 0 \/ Len(b) = 0 THEN <<>>
    ELSE Trim(Carry([k \in 1..(Len(a) + Len(b) - 1) |-> ColumnSum(a, b, k, 1)], 0))

RECURSIVE CmpFrom(_, _, _)
CmpFrom(a, b, i) ==
    IF i = 0 THEN 0
    ELSE IF a[i] > b[i] THEN 1
    ELSE IF a[i] < b[i] THEN 0 - 1
    ELSE CmpFrom(a, b, i - 1)

\* -1, 0 or 1 as a is less than, equal to or greater than b
BigCmp(a, b) ==
    IF Len(a) > Len(b) THEN 1
    ELSE IF Len(a) < Len(b) THEN 0 - 1
    ELSE CmpFrom(a, b, Len(a))

RECURSIVE SmallBits(_)
SmallBits(n) == IF n = 0 THEN 0 ELSE 1 + SmallBits(n \div 2)

BitLen(a) == IF Len(a) = 0 THEN 0 ELSE 10 * (Len(a) - 1) + SmallBits(a[Len(a)])

Pow2(s) == [i \in 1..(s \div 10 + 1) |-> IF i = s \div 10 + 1 THEN 2 ^ (s % 10) ELSE 0]

ShiftLeft(a, s) == BigMul(a, Pow2(s))

RECURSIVE DivSmallFrom(_, _, _, _)
\* the quotient limbs (most significant first) of a by d, from limb i down
DivSmallFrom(a, d, i, r) ==
    IF i = 0 THEN <<r>>
    ELSE <<(r * Base + a[i]) \div d>> \o DivSmallFrom(a, d, i - 1, (r * Base + a[i]) % d)

Reverse(s) == [i \in 1..Len(s) |-> s[Len(s) + 1 - i]]

\* a divided by a small d: the quotient and the remainder
BigDivSmall(a, d) ==
    LET Split(qr) == [q |-> Trim(Reverse(SubSeq(qr, 1, Len(qr) - 1))),
                      r |-> qr[Len(qr)]]
    IN Split(DivSmallFrom(a, d, Len(a), 0))

\* floor(a / 2^s)
ShiftRight(a, s) ==
    IF s \div 10 >= Len(a) THEN <<>>
    ELSE BigDivSmall(SubSeq(a, s \div 10 + 1, Len(a)), 2 ^ (s % 10)).q

IsOdd(a) == Len(a) > 0 /\ a[1] % 2 = 1

\* M * 2^e (plus a positive amount below one unit of M when sticky) rounded
\* to 53 significant bits
RoundTo53(neg, M, e, sticky) ==
    LET Rounded(s, q) ==
            LET Up(c) == c > 0 \/ (c = 0 /\ (sticky \/ IsOdd(q)))
            IN [neg |-> neg,
                m |-> IF Up(BigCmp(BigSub(M, ShiftLeft(q, s)), Pow2(s - 1)))
                      THEN BigAdd(q, <<1>>) ELSE q,
                e |-> e + s]
    IN IF BitLen(M) <= 53 THEN [neg |-> neg, m |-> M, e |-> e]
       ELSE Rounded(BitLen(M) - 53, ShiftRight(M, BitLen(M) - 53))

\* float("n/100") for an integer n of hundredths
FloatOfHundredths(n) ==
    LET Of(qr) == RoundTo53(n < 0, qr.q, 0 - 70, qr.r # 0)
    IN Of(BigDivSmall(ShiftLeft(BigOf(Abs(n)), 70), 100))

\* the mantissas of x and y brought to the smaller of the two exponents
Aligned(x, y) ==
    [a |-> ShiftLeft(x.m, x.e - Min(x.e, y.e)),
     b |-> ShiftLeft(y.m, y.e - Min(x.e, y.e))]

\* -1, 0 or 1 as x is less than, equal to or greater than y
FloatCmp(x, y) ==
    LET Mag(p) == BigCmp(p.a, p.b)
        zx == Len(x.m) = 0
        zy == Len(y.m) = 0
    IN IF zx /\ zy THEN 0
       ELSE IF zx THEN (IF y.neg THEN 1 ELSE 0 - 1)
       ELSE IF zy THEN (IF x.neg THEN 0 - 1 ELSE 1)
       ELSE IF x.neg # y.neg THEN (IF x.neg THEN 0 - 1 ELSE 1)
       ELSE IF x.neg THEN 0 - Mag(Aligned(x, y))
       ELSE Mag(Aligned(x, y))

\* x + y for x, y >= 0
FloatAdd(x, y) ==
    LET Sum(p) == RoundTo53(FALSE, BigAdd(p.a, p.b), Min(x.e, y.e), FALSE)
    IN Sum(Aligned(x, y))

\* x - y for x >= y >= 0
FloatSub(x, y) ==
    LET Diff(p) == RoundTo53(FALSE, BigSub(p.a, p.b), Min(x.e, y.e), FALSE)
    IN Diff(Aligned(x, y))

FloatMul(x, y) == RoundTo53(x.neg # y.neg, BigMul(x.m, y.m), x.e + y.e, FALSE)

RECURSIVE LongDivide(_, _, _, _)
\* steps more quotient bits of r / d for r < 2 d: the quotient and the rest
LongDivide(r, d, steps, q) ==
    IF steps = 0 THEN [q |-> q, r |-> r]
    ELSE CHOOSE qr \in
             { LongDivide(next_r, d, steps - 1, next_q) :
                 next_r \in {IF BigCmp(r, d) >= 0
                              THEN BigAdd(BigSub(r, d), BigSub(r, d))
                              ELSE BigAdd(r, r)},
                 next_q \in {IF BigCmp(r, d) >= 0
                              THEN BigAdd(BigAdd(q, q), <<1>>)
                              ELSE BigAdd(q, q)} } : TRUE

\* x / y for y # 0: 56 quotient bits and a sticky rest, then the rounding
FloatDiv(x, y) ==
    LET k == BitLen(y.m) - BitLen(x.m)
        num == IF k >= 0 THEN ShiftLeft(x.m, k) ELSE x.m
        den == IF k >= 0 THEN y.m ELSE ShiftLeft(y.m, 0 - k)
        Quot(qr) == RoundTo53(x.neg # y.neg, qr.q, x.e - y.e - k - 55,
                              Len(qr.r) # 0)
    IN IF Len(x.m) = 0 THEN [neg |-> x.neg # y.neg, m |-> <<>>, e |-> 0]
       ELSE Quot(LongDivide(num, den, 56, <<>>))

(***************************************************************************)
(* fuzz.ratio of fuzzywuzzy: int(round(100 * 2M/T)) where T is the sum of  *)
(* the two lengths and M the number of matched characters (the longest     *)
(* common subsequence, as the Levenshtein-backed matcher computes it).     *)
(***************************************************************************)
SetMax(S) == CHOOSE x \in S : \A y \in S : y <= x

\* one row of the longest-common-subsequence table from the row above it:
\* L[i][j] = max(L[i-1][j], max{ L[i-1][k-1] + 1 : k <= j, b[k] = a[i] })
LcsRow(prev, ca, b) ==
    [j \in 1..Len(b) |->
        SetMax({prev[j]} \cup
               { (IF k = 1 THEN 0 ELSE prev[k - 1]) + 1 :
                   k \in {k \in 1..j : Char(b, k) = ca} })]

RECURSIVE LcsRows(_, _, _, _)
LcsRows(a, b, i, prev) ==
    IF i > Len(a) THEN prev
    ELSE LcsRows(a, b, i + 1, LcsRow(prev, Char(a, i), b))

LcsLen(a, b) ==
    IF Len(a) = 0 \/ Len(b) = 0 THEN 0
    ELSE LcsRows(a, b, 1, [j \in 1..Len(b) |-> 0])[Len(b)]

\* round(n / d) of Python 3: ties go to the even integer
RoundHalfEven(n, d) ==
    LET q == n \div d
        r == n % d
    IN IF 2 * r < d THEN q
       ELSE IF 2 * r > d THEN q + 1
       ELSE IF q % 2 = 0 THEN q ELSE q + 1

\* fuzz.ratio(a, b), an integer in 0..100
FuzzRatio(a, b) ==
    IF a = b THEN 100
    ELSE IF Len(a) = 0 \/ Len(b) = 0 THEN 0
    ELSE RoundHalfEven(200 * LcsLen(a, b), Len(a) + Len(b))

(***************************************************************************)
(* The regular expressions of the re module.  A pattern is a tree of       *)
(* records; Match gives, for a start position, the ends of all the ways    *)
(* the pattern matches there, in the order in which the backtracking       *)
(* matcher of re tries them, so the first one is the match re reports.     *)
(* A result is [e |-> position after the match, g |-> captured groups as   *)
(* <<number, start, end>> triples].  A pattern compiled with re.IGNORECASE *)
(* has its literals in lower case and is matched against the lower-cased   *)
(* subject (SearchI, FindAllI); positions are those of the subject.        *)
(***************************************************************************)
Lit(str) == [t |-> "lit", s |-> str]

OneOf(chars) == [t |-> "set", cs |-> chars]

AnyChar == [t |-> "any"]

EndOfString == [t |-> "eos"]

WordBoundary == [t |-> "wb"]

Cat(nodes) == [t |-> "seq", xs |-> nodes]

Alt(nodes) == [t |-> "alt", xs |-> nodes]

\* hi < 0 stands for no upper limit
Rep(node, lo, hi) == [t |-> "rep", x |-> node, lo |-> lo, hi |-> hi, lazy |-> FALSE]

RepLazy(node, lo, hi) == [t |-> "rep", x |-> node, lo |-> lo, hi |-> hi, lazy |-> TRUE]

Opt(node) == Rep(node, 0, 1)

Group(n, node) == [t |-> "grp", n |-> n, x |-> node]

Digit == OneOf(DigitChars)

Space == OneOf(WhitespaceChars)

Spaces1 == Rep(Space, 1, 0 - 1)

Spaces0 == Rep(Space, 0, 0 - 1)

SetMin(S) == CHOOSE x \in S : \A y \in S : x <= y

IsWordAt(s, p) == p >= 1 /\ p <= Len(s) /\ IsWordChar(Char(s, p))

\* a pattern that consumes exactly one character
IsSingle(n) == n.t \in {"set", "any"} \/ (n.t = "lit" /\ Len(n.s) = 1)

Accepts(n, c) ==
    CASE n.t = "set" -> c \in n.cs
      [] n.t = "any" -> c # "\n"
      [] n.t = "lit" -> c = n.s

\* how many characters from p on a one-character pattern accepts in a row,
\* at most hi of them
RunLen(x, s, p, hi) ==
    LET limit == IF hi < 0 THEN Len(s) ELSE Min(Len(s), p + hi - 1)
        bad == {q \in p..limit : ~Accepts(x, Char(s, q))}
    IN IF bad = {} THEN limit - p + 1 ELSE SetMin(bad) - p

RECURSIVE FlattenRange(_, _, _)
FlattenRange(ss, lo, hi) ==
    IF lo > hi THEN <<>>
    ELSE IF lo = hi THEN ss[lo]
    ELSE FlattenRange(ss, lo, (lo + hi) \div 2)
         \o FlattenRange(ss, ((lo + hi) \div 2) + 1, hi)

\* the concatenation of a sequence of sequences
Flatten(ss) == FlattenRange(ss, 1, Len(ss))

Combine(r1, rs) == [j \in 1..Len(rs) |-> [e |-> rs[j].e, g |-> r1.g \o rs[j].g]]

RECURSIVE Match(_, _, _), MatchSeq(_, _, _, _), MatchRep(_, _, _, _, _, _)

Match(n, s, p) ==
    CASE n.t = "lit" ->
            IF p + Len(n.s) - 1 <= Len(s) /\ SubSeq(s, p, p + Len(n.s) - 1) = n.s
            THEN <<[e |-> p + Len(n.s), g |-> <<>>]>> ELSE <<>>
      [] n.t = "set" ->
            IF p <= Len(s) /\ Char(s, p) \in n.cs
            THEN <<[e |-> p + 1, g |-> <<>>]>> ELSE <<>>
      [] n.t = "any" ->
            IF p <= Len(s) /\ Char(s, p) # "\n"
            THEN <<[e |-> p + 1, g |-> <<>>]>> ELSE <<>>
      [] n.t = "eos" ->
            IF p = Len(s) + 1 \/ (p = Len(s) /\ Char(s, p) = "\n")
            THEN <<[e |-> p, g |-> <<>>]>> ELSE <<>>
      [] n.t = "wb" ->
            IF IsWordAt(s, p - 1) # IsWordAt(s, p)
            THEN <<[e |-> p, g |-> <<>>]>> ELSE <<>>
      [] n.t = "seq" -> MatchSeq(n.xs, 1, s, p)
      [] n.t = "alt" -> Flatten([k \in 1..Len(n.xs) |-> Match(n.xs[k], s, p)])
      [] n.t = "rep" -> MatchRep(n.x, n.lo, n.hi, n.lazy, s, p)
      [] n.t = "grp" ->
            LET rs == Match(n.x, s, p)
            IN [j \in 1..Len(rs) |->
                   [e |-> rs[j].e, g |-> <<<<n.n, p, rs[j].e>>>> \o rs[j].g]]

MatchSeq(xs, k, s, p) ==
    IF k > Len(xs) THEN <<[e |-> p, g |-> <<>>]>>
    ELSE LET firsts == Match(xs[k], s, p)
         IN Flatten([i \in 1..Len(firsts) |->
                        Combine(firsts[i], MatchSeq(xs, k + 1, s, firsts[i].e))])

MatchRep(x, lo, hi, lazy, s, p) ==
    IF IsSingle(x)
    THEN LET run == RunLen(x, s, p, hi)
             low == Max(lo, 0)
         IN IF run < low THEN <<>>
            ELSE [j \in 1..(run - low + 1) |->
                     [e |-> IF lazy THEN p + low + j - 1 ELSE p + run - j + 1,
                      g |-> <<>>]]
    ELSE LET stop == IF lo <= 0 THEN <<[e |-> p, g |-> <<>>]>> ELSE <<>>
             firsts == Match(x, s, p)
             more ==
                 IF hi = 0 THEN <<>>
                 ELSE Flatten([i \in 1..Len(firsts) |->
                         IF firsts[i].e > p
                         THEN Combine(firsts[i],
                                  MatchRep(x, lo - 1, IF hi < 0 THEN hi ELSE hi - 1,
                                           lazy, s, firsts[i].e))
                         ELSE <<>>])
         IN IF lazy THEN stop \o more ELSE more \o stop

RECURSIVE Nullable(_)
\* the pattern can match the empty string
Nullable(n) ==
    CASE n.t = "lit" -> n.s = ""
      [] n.t \in {"set", "any"} -> FALSE
      [] n.t \in {"eos", "wb"} -> TRUE
      [] n.t = "seq" -> \A k \in 1..Len(n.xs) : Nullable(n.xs[k])
      [] n.t = "alt" -> \E k \in 1..Len(n.xs) : Nullable(n.xs[k])
      [] n.t = "rep" -> n.lo <= 0 \/ Nullable(n.x)
      [] n.t = "grp" -> Nullable(n.x)

\* the elements of a sequence pattern that can hold the first character
Heads(xs) == {k \in 1..Len(xs) : \A j \in 1..(k - 1) : Nullable(xs[j])}

RECURSIVE FirstSet(_)
\* characters a non-empty match can start with
FirstSet(n) ==
    CASE n.t = "lit" -> IF n.s = "" THEN {} ELSE {Char(n.s, 1)}
      [] n.t = "set" -> n.cs
      [] n.t \in {"any", "eos", "wb"} -> {}
      [] n.t = "seq" -> UNION {FirstSet(n.xs[k]) : k \in Heads(n.xs)}
      [] n.t = "alt" -> UNION {FirstSet(n.xs[k]) : k \in 1..Len(n.xs)}
      [] n.t \in {"rep", "grp"} -> FirstSet(n.x)

RECURSIVE FirstAny(_)
\* a match can start with a character that FirstSet does not list
FirstAny(n) ==
    CASE n.t = "any" -> TRUE
      [] n.t \in {"lit", "set", "eos", "wb"} -> FALSE
      [] n.t = "seq" -> \E k \in Heads(n.xs) : FirstAny(n.xs[k])
      [] n.t = "alt" -> \E k \in 1..Len(n.xs) : FirstAny(n.xs[k])
      [] n.t \in {"rep", "grp"} -> FirstAny(n.x)

\* pattern.search(s, pos): the leftmost match at or after position from
SearchFrom(n, s, from) ==
    LET Found(p, r) == Some([start |-> p, e |-> r.e, g |-> r.g])
        At(p) == Found(p, Match(n, s, p)[1])
        Leftmost(hits) == IF hits = {} THEN None ELSE At(SetMin(hits))
        starts == IF Nullable(n) \/ FirstAny(n) THEN from..(Len(s) + 1)
                  ELSE LET fs == FirstSet(n)
                       IN {p \in from..Len(s) : Char(s, p) \in fs}
    IN Leftmost({p \in starts : Len(Match(n, s, p)) > 0})

\* pattern.search(s)
Search(n, s) == SearchFrom(n, s, 1)

\* pattern.search(s) of a pattern compiled with re.IGNORECASE
SearchI(n, s) == SearchFrom(n, Lower(s), 1)

\* match.group(0)
MatchText(s, m) == SubSeq(s, m.start, m.e - 1)

\* match.group(k) of a group that took part in the match
GroupText(s, m, k) ==
    LET i == CHOOSE i \in 1..Len(m.g) :
                 m.g[i][1] = k /\ \A j \in (i + 1)..Len(m.g) : m.g[j][1] # k
    IN SubSeq(s, m.g[i][2], m.g[i][3] - 1)

RECURSIVE FindAllFrom(_, _, _)
\* the matches that finditer yields, for a pattern without empty matches
FindAllFrom(n, s, p) ==
    LET Rest(m) == IF IsNone(m) THEN <<>>
                   ELSE <<Get(m)>> \o FindAllFrom(n, s, Get(m).e)
    IN Rest(SearchFrom(n, s, p))

FindAll(n, s) == FindAllFrom(n, s, 1)

\* finditer of a pattern compiled with re.IGNORECASE
FindAllI(n, s) == FindAllFrom(n, Lower(s), 1)

(***************************************************************************)
(* Config (config.py) and the rule tables of LoadMatchingAgent.            *)
(***************************************************************************)
MATCH_THRESHOLD_HIGH == 8500

MATCH_THRESHOLD_MEDIUM == 6000

MATCH_THRESHOLD_LOW == 4000

MATCH_WEIGHTS ==
    [truck_type |-> 25, tonnage |-> 20, length |-> 15, route_from |-> 15,
     route_to |-> 10, product |-> 10, availability |-> 5]

\* Config with no environment override: what self.config reads
Config ==
    [MATCH_THRESHOLD_HIGH |-> MATCH_THRESHOLD_HIGH,
     MATCH_THRESHOLD_MEDIUM |-> MATCH_THRESHOLD_MEDIUM,
     MATCH_THRESHOLD_LOW |-> MATCH_THRESHOLD_LOW,
     MATCH_WEIGHTS |-> MATCH_WEIGHTS]

\* self.truck_compatibility, in insertion order
truck_compatibility ==
    << [truck_type |-> "open",
        compatible_with |-> <<"open truck", "open", "goods vehicle">>,
        incompatible_with |-> <<"container">>,
        flexible_with |-> <<>>],
       [truck_type |-> "container",
        compatible_with |-> <<"container", "closed">>,
        incompatible_with |-> <<"open truck", "open">>,
        flexible_with |-> <<>>] >>

\* self.product_truck_compatibility, in insertion order
product_truck_compatibility ==
    << [product |-> "ashirwad pipes",
        preferred |-> <<"open", "container">>,
        acceptable |-> <<"open truck">>,
        avoid |-> <<>>],
       [product |-> "cotton boxes",
        preferred |-> <<"open", "open truck">>,
        acceptable |-> <<"container">>,
        avoid |-> <<>>] >>

\* self.tonnage_tolerance = 0.2, in hundredths
tonnage_tolerance == 20

\* self.length_tolerance = 2 feet
length_tolerance == 2

\* any(x in s for x in xs)
AnyIn(xs, s) == \E k \in 1..Len(xs) : Contains(xs[k], s)

\* str(member) of the str-mixin Enum TruckType: "TruckType.<NAME>"
TruckTypeNames == {"OPEN", "CONTAINER", "CLOSED", "MULTI_AXLE", "SINGLE_AXLE"}

StrTruckType(t) == "TruckType." \o t

(***************************************************************************)
(* LoadMatchingAgent: the per-criterion scores.                             *)
(***************************************************************************)
RECURSIVE TruckRulesFrom(_, _, _)
\* the loop over self.truck_compatibility; None when no rule returns
TruckRulesFrom(k, trucker_type_str, load_type_str) ==
    IF k > Len(truck_compatibility) THEN None
    ELSE LET rules == truck_compatibility[k]
         IN IF Contains(rules.truck_type, trucker_type_str)
            THEN IF AnyIn(rules.compatible_with, load_type_str) THEN Some(90)
                 ELSE IF AnyIn(rules.incompatible_with, load_type_str) THEN Some(10)
                 ELSE IF AnyIn(rules.flexible_with, load_type_str) THEN Some(60)
                 ELSE TruckRulesFrom(k + 1, trucker_type_str, load_type_str)
            ELSE TruckRulesFrom(k + 1, trucker_type_str, load_type_str)

\* a missing trucker type scored with a neutral 0.5
MatchTruckType_NeutralWhenMissing(trucker_type, load_truck_type) ==
    IF IsNone(trucker_type) THEN 50
    ELSE LET trucker_type_str == Lower(StrTruckType(Get(trucker_type)))
             load_type_str == Lower(load_truck_type)
             fuzzy_score == FuzzRatio(trucker_type_str, load_type_str)
             rule == TruckRulesFrom(1, trucker_type_str, load_type_str)
         IN IF Contains(trucker_type_str, load_type_str)
               \/ Contains(load_type_str, trucker_type_str)
            THEN 100
            ELSE IF fuzzy_score > 80 THEN fuzzy_score
            ELSE IF ~IsNone(rule) THEN Get(rule)
            ELSE Max(30, fuzzy_score)

\* _match_truck_type
MatchTruckType(trucker_type, load_truck_type) ==
    IF IsNone(trucker_type) THEN 0
    ELSE LET trucker_type_str == Lower(StrTruckType(Get(trucker_type)))
             load_type_str == Lower(load_truck_type)
             fuzzy_score == FuzzRatio(trucker_type_str, load_type_str)
             rule == TruckRulesFrom(1, trucker_type_str, load_type_str)
         IN IF Contains(trucker_type_str, load_type_str)
               \/ Contains(load_type_str, trucker_type_str)
            THEN 100
            ELSE IF fuzzy_score > 80 THEN fuzzy_score
            ELSE IF ~IsNone(rule) THEN Get(rule)
            ELSE Max(30, fuzzy_score)

\* the value a criterion takes when the code raises instead of returning
Raised == 0 - 1

\* "trucker_tonnage <= load_tonnage_float * (1 + self.tonnage_tolerance)" for
\* t and l in hundredths.  Two different numbers of hundredths are further
\* apart than the rounding errors of the product, so only when 100 t equals
\* 120 l do the binary64 operations decide.
WithinOverCapacity(t, l) ==
    IF 100 * t # (100 + tonnage_tolerance) * l
    THEN 100 * t < (100 + tonnage_tolerance) * l
    ELSE FloatCmp(FloatOfHundredths(t),
                  FloatMul(FloatOfHundredths(l),
                           FloatAdd(FloatOfHundredths(100),
                                    FloatOfHundredths(tonnage_tolerance)))) <= 0

\* "trucker_tonnage / load_tonnage_float >= (1 - self.tonnage_tolerance)" for
\* l # 0; the binary64 operations decide when 100 t equals 80 l
WithinUnderCapacity(t, l) ==
    IF 100 * t # (100 - tonnage_tolerance) * l
    THEN \/ l > 0 /\ 100 * t > (100 - tonnage_tolerance) * l
         \/ l < 0 /\ 100 * t < (100 - tonnage_tolerance) * l
    ELSE FloatCmp(FloatDiv(FloatOfHundredths(t), FloatOfHundredths(l)),
                  FloatSub(FloatOfHundredths(100),
                           FloatOfHundredths(tonnage_tolerance))) >= 0

\* _match_tonnage; trucker_tonnage in hundredths of a ton
MatchTonnage(trucker_tonnage, load_tonnage) ==
    IF IsNone(trucker_tonnage) \/ Get(trucker_tonnage) = 0
       \/ IsNone(load_tonnage) \/ Get(load_tonnage) = ""
    THEN 50
    ELSE LET t == Get(trucker_tonnage)
             load_tonnage_clean ==
                 Strip(Replace(Replace(Replace(Lower(Get(load_tonnage)),
                                               "mt", ""), "tons", ""), "ton", ""))
             parsed == ParseFloat(load_tonnage_clean)
         IN IF load_tonnage_clean = "" \/ load_tonnage_clean = "-" THEN 50
            ELSE IF IsNone(parsed) THEN 50
            ELSE LET l == Get(parsed)
                 IN IF t >= l
                    THEN IF WithinOverCapacity(t, l) THEN 100 ELSE 70
                    ELSE IF l = 0 THEN Raised
                    ELSE IF WithinUnderCapacity(t, l) THEN 60
                    ELSE 10

\* _match_length
MatchLength(trucker_length, load_length) ==
    IF IsNone(trucker_length) \/ Get(trucker_length) = 0
       \/ IsNone(load_length) \/ Get(load_length) = ""
    THEN 70
    ELSE LET t == Get(trucker_length)
             load_length_clean ==
                 Strip(Replace(Replace(Lower(Get(load_length)), "ft", ""), "feet", ""))
             parsed == ParseInt(load_length_clean)
         IN IF load_length_clean = "" \/ load_length_clean = "-" THEN 70
            ELSE IF IsNone(parsed) THEN 70
            ELSE LET l == Get(parsed)
                     length_diff == Abs(t - l)
                 IN IF t = l THEN 100
                    ELSE IF length_diff <= length_tolerance THEN 90
                    ELSE IF t > l
                         THEN IF length_diff <= 5 THEN 80 ELSE 60
                         ELSE IF length_diff <= 2 THEN 50 ELSE 20

RECURSIVE LocationLoop_Unscaled(_, _, _, _)
\* the fuzzy score used as returned by fuzz.ratio, without "/ 100.0"
LocationLoop_Unscaled(k, trucker_locations, load_location_clean, best_score) ==
    IF k > Len(trucker_locations) THEN best_score
    ELSE LET trucker_loc_clean == Strip(Lower(trucker_locations[k]))
         IN IF Contains(trucker_loc_clean, load_location_clean)
               \/ Contains(load_location_clean, trucker_loc_clean)
            THEN 100
            ELSE LocationLoop_Unscaled(k + 1, trucker_locations, load_location_clean,
                     Max(best_score,
                         100 * FuzzRatio(trucker_loc_clean, load_location_clean)))

RECURSIVE LocationLoop(_, _, _, _)
\* the loop of _match_location over trucker_locations
LocationLoop(k, trucker_locations, load_location_clean, best_score) ==
    IF k > Len(trucker_locations) THEN best_score
    ELSE LET trucker_loc_clean == Strip(Lower(trucker_locations[k]))
         IN IF Contains(trucker_loc_clean, load_location_clean)
               \/ Contains(load_location_clean, trucker_loc_clean)
            THEN 100
            ELSE LocationLoop(k + 1, trucker_locations, load_location_clean,
                              Max(best_score,
                                  FuzzRatio(trucker_loc_clean, load_location_clean)))

\* the load's place scored against the first of the trucker's places only
MatchLocation_OriginOnly(trucker_locations, load_location) ==
    IF Len(trucker_locations) = 0 \/ load_location = "" THEN 40
    ELSE LocationLoop(1, SubSeq(trucker_locations, 1, 1),
                      Strip(Lower(load_location)), 0)

\* _match_location
MatchLocation(trucker_locations, load_location) ==
    IF Len(trucker_locations) = 0 \/ load_location = "" THEN 40
    ELSE LocationLoop(1, trucker_locations, Strip(Lower(load_location)), 0)

RECURSIVE ProductRulesFrom(_, _, _)
\* the loop over self.product_truck_compatibility; None when no rule returns
ProductRulesFrom(k, truck_type_str, product_str) ==
    IF k > Len(product_truck_compatibility) THEN None
    ELSE LET compatibility == product_truck_compatibility[k]
         IN IF Contains(compatibility.product, product_str)
            THEN IF AnyIn(compatibility.preferred, truck_type_str) THEN Some(100)
                 ELSE IF AnyIn(compatibility.acceptable, truck_type_str) THEN Some(70)
                 ELSE IF AnyIn(compatibility.avoid, truck_type_str) THEN Some(20)
                 ELSE ProductRulesFrom(k + 1, truck_type_str, product_str)
            ELSE ProductRulesFrom(k + 1, truck_type_str, product_str)

\* _match_product
MatchProduct(trucker_truck_type, load_product) ==
    IF IsNone(trucker_truck_type) THEN 60
    ELSE LET rule == ProductRulesFrom(1, Lower(StrTruckType(Get(trucker_truck_type))),
                                      Lower(load_product))
         IN IF ~IsNone(rule) THEN Get(rule) ELSE 60

RECURSIVE ConstraintLoop(_, _, _, _)
\* the loop of _match_availability over availability_constraints; the
\* halvings stay whole hundredths for at most two colliding constraints
ConstraintLoop(k, constraints, eta_lower, score) ==
    IF k > Len(constraints) THEN score
    ELSE ConstraintLoop(k + 1, constraints, eta_lower,
                        IF Contains("sunday", constraints[k]) /\ Contains("sunday", eta_lower)
                        THEN score \div 2 ELSE score)

\* _match_availability
MatchAvailability(trucker_req, load) ==
    LET base == IF trucker_req.available_immediately
                   /\ Contains("same day", Lower(load.eta))
                THEN 100 ELSE 80
    IN Min(100, ConstraintLoop(1, trucker_req.availability_constraints,
                               Lower(load.eta), base))

\* the medium threshold tested before the high one
GetRecommendation_MediumFirst(overall_score) ==
    IF overall_score >= config.MATCH_THRESHOLD_MEDIUM THEN "human_review"
    ELSE IF overall_score >= config.MATCH_THRESHOLD_HIGH THEN "auto_approve"
    ELSE IF overall_score >= config.MATCH_THRESHOLD_LOW THEN "create_lead"
    ELSE "reject"

\* the two lower tiers returned the wrong way round
GetRecommendation_TiersSwapped(overall_score) ==
    IF overall_score >= config.MATCH_THRESHOLD_HIGH THEN "auto_approve"
    ELSE IF overall_score >= config.MATCH_THRESHOLD_MEDIUM THEN "create_lead"
    ELSE IF overall_score >= config.MATCH_THRESHOLD_LOW THEN "human_review"
    ELSE "reject"

\* _get_recommendation
GetRecommendation(overall_score) ==
    IF overall_score >= config.MATCH_THRESHOLD_HIGH THEN "auto_approve"
    ELSE IF overall_score >= config.MATCH_THRESHOLD_MEDIUM THEN "human_review"
    ELSE IF overall_score >= config.MATCH_THRESHOLD_LOW THEN "create_lead"
    ELSE "reject"

(***************************************************************************)
(* LoadMatchingAgent: _calculate_match_score and find_matching_loads.      *)
(***************************************************************************)
DetailedScores(trucker_req, load) ==
    [truck_type |-> MatchTruckType(trucker_req.truck_type, load.truck_type),
     tonnage |-> MatchTonnage(trucker_req.tonnage, load.tonnage),
     length |-> MatchLength(trucker_req.truck_length, load.truck_length),
     route_from |-> MatchLocation(trucker_req.preferred_routes, load.from_location),
     route_to |-> MatchLocation(trucker_req.preferred_routes, load.to_location),
     product |-> MatchProduct(trucker_req.truck_type, load.product),
     availability |-> MatchAvailability(trucker_req, load)]

\* the weighted sum, in ten-thousandths
OverallScore(d) ==
    d.truck_type * config.MATCH_WEIGHTS.truck_type
    + d.tonnage * config.MATCH_WEIGHTS.tonnage
    + d.length * config.MATCH_WEIGHTS.length
    + d.route_from * config.MATCH_WEIGHTS.route_from
    + d.route_to * config.MATCH_WEIGHTS.route_to
    + d.product * config.MATCH_WEIGHTS.product
    + d.availability * config.MATCH_WEIGHTS.availability

\* the gate with "or" for "and"
MandatoryMatch_Either(d) == d.truck_type >= 50 \/ d.tonnage >= 50

MandatoryMatch(d) == d.truck_type >= 50 /\ d.tonnage >= 50

\* "if trucker_req.expected_rate and load.price": both are set and non-zero
PricesUsable(expected_rate, price) ==
    /\ ~IsNone(expected_rate) /\ Get(expected_rate) # 0
    /\ ~IsNone(price) /\ Get(price) # 0

\* price_gap / load.price < num / 10, for price_gap >= 0 and price # 0
PctBelow(price_gap, price, num) ==
    IF price > 0 THEN 10 * price_gap < num * price ELSE TRUE

PriceGap(expected_rate, price) ==
    IF PricesUsable(expected_rate, price)
    THEN Some(Abs(Get(expected_rate) - Get(price)))
    ELSE None

NegotiationLikelihood(expected_rate, price) ==
    IF PricesUsable(expected_rate, price)
    THEN LET price_gap == Abs(Get(expected_rate) - Get(price))
         IN IF PctBelow(price_gap, Get(price), 1) THEN 90
            ELSE IF PctBelow(price_gap, Get(price), 2) THEN 70
            ELSE 30
    ELSE 50

MatchReasons(d) ==
    (IF d.truck_type > 80 THEN <<"truck_type">> ELSE <<>>)
    \o (IF d.tonnage > 80 THEN <<"tonnage">> ELSE <<>>)
    \o (IF d.route_from > 70 THEN <<"route_from">> ELSE <<>>)

MismatchReasons(d) ==
    (IF d.truck_type <= 80 /\ d.truck_type < 30 THEN <<"truck_type">> ELSE <<>>)
    \o (IF d.tonnage <= 80 /\ d.tonnage < 30 THEN <<"tonnage">> ELSE <<>>)

\* _calculate_match_score, when no criterion raises
CalculateMatchScore(trucker_req, load) ==
    LET d == DetailedScores(trucker_req, load)
    IN [load_id |-> load.id,
        overall_score |-> OverallScore(d),
        detailed_scores |-> d,
        mandatory_match |-> MandatoryMatch(d),
        recommendation |-> GetRecommendation(OverallScore(d)),
        match_reasons |-> MatchReasons(d),
        mismatch_reasons |-> MismatchReasons(d),
        price_gap |-> PriceGap(trucker_req.expected_rate, load.price),
        negotiation_likelihood |->
            NegotiationLikelihood(trucker_req.expected_rate, load.price)]

\* _calculate_match_score raises (ZeroDivisionError in _match_tonnage)
ScoreRaises(trucker_req, load) ==
    MatchTonnage(trucker_req.tonnage, load.tonnage) = Raised

\* only cancelled loads skipped
IsMatchable_NotCancelled(load) == load.status # "cancelled"

\* "if load.status != LoadStatus.AVAILABLE: continue"
IsMatchable(load) == load.status = "available"

\* only the results that reach the lowest threshold kept
KeepResult_AboveLow(match_result) ==
    match_result.overall_score >= config.MATCH_THRESHOLD_LOW

\* "if match_result.overall_score > 0"
KeepResult(match_result) == match_result.overall_score > 0

RECURSIVE CollectFrom(_, _, _)
\* the loop of find_matching_loads over available_loads
CollectFrom(k, trucker_req, loads) ==
    IF k > Len(loads) THEN <<>>
    ELSE LET rest == CollectFrom(k + 1, trucker_req, loads)
         IN IF ~IsMatchable(loads[k]) THEN rest
            ELSE LET match_result == CalculateMatchScore(trucker_req, loads[k])
                 IN IF KeepResult(match_result)
                    THEN <<match_result>> \o rest
                    ELSE rest

RECURSIVE InsertDesc(_, _)
\* insert r behind every element whose key is >= its own
InsertDesc(sorted, r) ==
    IF Len(sorted) = 0 THEN <<r>>
    ELSE IF Head(sorted).overall_score >= r.overall_score
         THEN <<Head(sorted)>> \o InsertDesc(Tail(sorted), r)
         ELSE <<r>> \o sorted

RECURSIVE SortFrom(_, _, _)
SortFrom(k, rs, sorted) ==
    IF k > Len(rs) THEN sorted
    ELSE SortFrom(k + 1, rs, InsertDesc(sorted, rs[k]))

RECURSIVE InsertDescFront(_, _)
\* insert r in front of every element whose key is <= its own
InsertDescFront(sorted, r) ==
    IF Len(sorted) = 0 THEN <<r>>
    ELSE IF Head(sorted).overall_score > r.overall_score
         THEN <<Head(sorted)>> \o InsertDescFront(Tail(sorted), r)
         ELSE <<r>> \o sorted

RECURSIVE SortFrontFrom(_, _, _)
SortFrontFrom(k, rs, sorted) ==
    IF k > Len(rs) THEN sorted
    ELSE SortFrontFrom(k + 1, rs, InsertDescFront(sorted, rs[k]))

\* an ascending sort followed by a reversal: descending, equal keys reversed
SortByScoreDesc_Reversed(rs) == SortFrontFrom(1, rs, <<>>)

\* list.sort(key = overall_score, reverse = True): stable, descending
SortByScoreDesc(rs) == SortFrom(1, rs, <<>>)

RECURSIVE CollectUntilUnavailable(_, _, _)
\* the loop with "break" for "continue"
CollectUntilUnavailable(k, trucker_req, loads) ==
    IF k > Len(loads) \/ ~IsMatchable(loads[k]) THEN <<>>
    ELSE LET rest == CollectUntilUnavailable(k + 1, trucker_req, loads)
             match_result == CalculateMatchScore(trucker_req, loads[k])
         IN IF KeepResult(match_result) THEN <<match_result>> \o rest ELSE rest

\* the loop left at the first unavailable load
FindMatches_StopAtUnavailable(trucker_req, loads) ==
    SortByScoreDesc(CollectUntilUnavailable(1, trucker_req, loads))

\* find_matching_loads, when no score raises
FindMatches(trucker_req, loads) ==
    SortByScoreDesc(CollectFrom(1, trucker_req, loads))

AnyScoreRaises(trucker_req, loads) ==
    \E k \in 1..Len(loads) :
        IsMatchable(loads[k]) /\ ScoreRaises(trucker_req, loads[k])

(***************************************************************************)
(* The inputs of the matcher: entity records and load catalogues.          *)
(***************************************************************************)
\* ExtractedEntities() with every field at its default (entities_model.py)
DefaultEntities ==
    [truck_type |-> None, truck_length |-> None, tonnage |-> None,
     current_location |-> None, preferred_routes |-> <<>>,
     expected_rate |-> None, available_immediately |-> TRUE,
     availability_constraints |-> <<>>, phone_number |-> None,
     rate_flexibility |-> None, special_requirements |-> <<>>,
     confidence_scores |-> <<>>]

EntityPool ==
    { [DefaultEntities EXCEPT
          !.truck_type = tt, !.tonnage = tn, !.truck_length = ln,
          !.preferred_routes = rt,
          !.current_location = IF Len(rt) > 0 THEN Some(rt[1]) ELSE None,
          !.expected_rate = er,
          !.available_immediately = av[1], !.availability_constraints = av[2]] :
        tt \in {None, Some("OPEN"), Some("CONTAINER")},
        tn \in {None, Some(2500)},
        ln \in {None, Some(25)},
        rt \in {<<>>, <<"Tumakuru", "Madurai">>},
        er \in {None, Some(0), Some(2000000)},
        av \in {<<TRUE, <<>> >>, <<FALSE, <<"not on sunday">> >>} }

\* the loads of create_sample_loads (main.py) and variations of them
SampleLoad ==
    [id |-> "L003", from_location |-> "Tumakuru", to_location |-> "Madurai",
     truck_type |-> "Open", truck_length |-> Some("25"), tonnage |-> Some("25"),
     product |-> "Agriculture", price |-> Some(2200000), eta |-> "3 days",
     status |-> "available"]

LoadPool ==
    { SampleLoad,
      [SampleLoad EXCEPT !.id = "L004", !.price = None],
      [SampleLoad EXCEPT !.id = "L001", !.from_location = "Chennai",
          !.to_location = "Bangalore", !.truck_type = "Container",
          !.truck_length = Some("20 ft"), !.tonnage = Some("8mt"),
          !.product = "Cotton boxes", !.price = Some(0),
          !.eta = "Same day, sunday"],
      [SampleLoad EXCEPT !.id = "L002", !.from_location = "Mumbai",
          !.to_location = "", !.truck_type = "Open Truck",
          !.truck_length = None, !.tonnage = Some("-"),
          !.product = "Ashirwad Pipes", !.price = Some(1800000),
          !.eta = "1 day", !.status = "assigned"],
      [SampleLoad EXCEPT !.id = "L005", !.status = "completed"],
      [SampleLoad EXCEPT !.id = "L006", !.tonnage = Some("heavy"),
          !.status = "cancelled"] }

Injective(f) == \A i, j \in DOMAIN f : f[i] = f[j] => i = j

\* catalogues of at most MaxLoads loads with pairwise different ids
Catalogues ==
    { c \in UNION { [1..n -> LoadPool] : n \in 0..MaxLoads } :
        Injective([i \in DOMAIN c |-> c[i].id]) }

NoExtraction == [done |-> FALSE]

\* no call of process_transcript has returned
NoResponse == <<>>

(***************************************************************************)
(* The matcher as a state machine: a call of find_matching_loads.          *)
(***************************************************************************)
Init ==
    /\ pc = "input"
    /\ entities \in EntityPool
    /\ catalogue \in Catalogues
    /\ results = <<>>
    /\ transcript = <<>>
    /\ extracted = NoExtraction
    /\ current_text = ""
    /\ calls = <<>>
    /\ config = Config
    /\ response = NoResponse
    /\ processing_history = <<>>

\* find_matching_loads(entities, catalogue), called on a given record or, by
\* process_transcript, on the record that extract_entities returned
FindMatchingLoads ==
    /\ pc \in {"input", "extracted"}
    /\ IF AnyScoreRaises(entities, catalogue)
       THEN /\ pc' = "raised"
            /\ results' = <<>>
       ELSE /\ pc' = "matched"
            /\ results' = FindMatches(entities, catalogue)
    /\ UNCHANGED <<entities, catalogue, transcript, extracted, current_text, calls, config,
                   response, processing_history>>

Next == FindMatchingLoads

Spec == Init /\ [][Next]_vars

(***************************************************************************)
(* Properties of the matcher.                                              *)
(***************************************************************************)
Tiers == <<"reject", "create_lead", "human_review", "auto_approve">>

TierRank(t) == CHOOSE i \in 1..4 : Tiers[i] = t

\* the position in the catalogue of the load with this id
PosOf(load_id) == CHOOSE k \in 1..Len(catalogue) : catalogue[k].id = load_id

LoadOf(load_id) == catalogue[PosOf(load_id)]

\* the record built from a text without truck, route or price content
NoCoreFacts(e) ==
    /\ IsNone(e.truck_type) /\ IsNone(e.tonnage) /\ IsNone(e.truck_length)
    /\ IsNone(e.current_location) /\ Len(e.preferred_routes) = 0
    /\ IsNone(e.expected_rate)
    /\ e.available_immediately /\ Len(e.availability_constraints) = 0

\* C1: for a record without truck, tonnage, length, route and rate, every
\* result of find_matching_loads has recommendation "reject".
C1_NoFactsAllReject ==
    (pc = "matched" /\ NoCoreFacts(entities)) =>
        \A i \in 1..Len(results) : results[i].recommendation = "reject"

\* C2: the weights sum to 1, and for every load of the catalogue each of the
\* seven criterion scores and the overall score lie in [0, 1].
C2_ScoresInUnitInterval ==
    /\ MATCH_WEIGHTS.truck_type + MATCH_WEIGHTS.tonnage + MATCH_WEIGHTS.length
       + MATCH_WEIGHTS.route_from + MATCH_WEIGHTS.route_to
       + MATCH_WEIGHTS.product + MATCH_WEIGHTS.availability = 100
    /\ \A k \in 1..Len(catalogue) :
         (pc = "matched" /\ ~ScoreRaises(entities, catalogue[k])) =>
            LET r == CalculateMatchScore(entities, catalogue[k])
                d == r.detailed_scores
            IN /\ \A s \in {d.truck_type, d.tonnage, d.length, d.route_from,
                            d.route_to, d.product, d.availability} :
                      0 <= s /\ s <= 100
               /\ 0 <= r.overall_score /\ r.overall_score <= 10000
    /\ \A i \in 1..Len(results) :
         0 <= results[i].overall_score /\ results[i].overall_score <= 10000

\* a returned result that scores at least 0.9
C2_Witness ==
    pc = "matched" /\ \E i \in 1..Len(results) : results[i].overall_score >= 9000

\* C3: the recommendation of every result is the tier of its overall score:
\* auto_approve iff >= 0.85, human_review iff in [0.60, 0.85), create_lead
\* iff in [0.40, 0.60), reject iff < 0.40.
C3_RecommendationIsTier ==
    \A i \in 1..Len(results) :
        LET r == results[i]
        IN /\ r.recommendation = "auto_approve" <=> r.overall_score >= 8500
           /\ r.recommendation = "human_review" <=>
                  (6000 <= r.overall_score /\ r.overall_score < 8500)
           /\ r.recommendation = "create_lead" <=>
                  (4000 <= r.overall_score /\ r.overall_score < 6000)
           /\ r.recommendation = "reject" <=> r.overall_score < 4000

\* results of all four tiers are returned by one call or another; here the
\* top tier and a lower one in the same list
C3_Witness ==
    /\ pc = "matched"
    /\ \E i, j \in 1..Len(results) :
         /\ results[i].recommendation = "auto_approve"
         /\ results[j].recommendation \in {"human_review", "create_lead", "reject"}

\* C4: for two results of one call, a strictly greater overall score never
\* has a worse tier.
C4_TierMonotone ==
    \A i, j \in 1..Len(results) :
        results[i].overall_score > results[j].overall_score =>
            TierRank(results[i].recommendation) >= TierRank(results[j].recommendation)

\* two results of one call with different scores in the two middle tiers
C4_Witness ==
    /\ pc = "matched"
    /\ \E i, j \in 1..Len(results) :
         /\ results[i].overall_score > results[j].overall_score
         /\ results[i].recommendation = "human_review"
         /\ results[j].recommendation = "create_lead"

\* C5: every returned load_id is the id of a catalogue load whose status is
\* available.
C5_OnlyAvailableLoads ==
    \A i \in 1..Len(results) :
        \E k \in 1..Len(catalogue) :
            /\ catalogue[k].id = results[i].load_id
            /\ catalogue[k].status = "available"

\* a call that returned results from a catalogue holding unavailable loads
C5_Witness ==
    /\ pc = "matched"
    /\ Len(results) > 0
    /\ \E k \in 1..Len(catalogue) : catalogue[k].status # "available"

\* C6: the returned list is sorted by overall score, non-increasing, and
\* results with equal scores keep the order of their loads in the catalogue.
C6_SortedStable ==
    \A i, j \in 1..Len(results) :
        i < j =>
            /\ results[i].overall_score >= results[j].overall_score
            /\ results[i].overall_score = results[j].overall_score =>
                   PosOf(results[i].load_id) < PosOf(results[j].load_id)

\* a call where the sort moved the last load of the catalogue to the front
C6_Witness ==
    /\ pc = "matched"
    /\ Len(results) >= 2
    /\ results[1].overall_score > results[2].overall_score
    /\ PosOf(results[1].load_id) = Len(catalogue)
    /\ PosOf(results[2].load_id) = 1

\* C7: mandatory_match is true iff the truck_type score and the tonnage
\* score are both >= 0.5, and an available load with a positive score is
\* returned whether or not the gate holds.
C7_MandatoryGateNotAFilter ==
    /\ \A i \in 1..Len(results) :
         results[i].mandatory_match <=>
            (results[i].detailed_scores.truck_type >= 50
             /\ results[i].detailed_scores.tonnage >= 50)
    /\ pc = "matched" =>
         \A k \in 1..Len(catalogue) :
            (/\ catalogue[k].status = "available"
             /\ OverallScore(DetailedScores(entities, catalogue[k])) > 0) =>
                \E i \in 1..Len(results) : results[i].load_id = catalogue[k].id

\* a returned result whose gate is false, next to one whose gate is true
\* only because of one of the two criteria
C7_Witness ==
    /\ pc = "matched"
    /\ \E i \in 1..Len(results) :
         /\ ~results[i].mandatory_match
         /\ results[i].overall_score > 0
         /\ results[i].detailed_scores.tonnage >= 50
         /\ results[i].detailed_scores.truck_type < 50

\* C8: price_gap is |expected_rate - price| whenever both prices are present
\* (zero included), and price_gap is unset with negotiation_likelihood 0.5
\* exactly when one of the two is absent.
C8_PriceGapWhenBothPresent ==
    \A i \in 1..Len(results) :
        LET r == results[i]
            price == LoadOf(r.load_id).price
            both == ~IsNone(entities.expected_rate) /\ ~IsNone(price)
        IN /\ both => r.price_gap = Some(Abs(Get(entities.expected_rate) - Get(price)))
           /\ (IsNone(r.price_gap) /\ r.negotiation_likelihood = 50) <=> ~both

(***************************************************************************)
(* EntityExtractionAgent: the patterns and vocabularies of _setup_patterns *)
(* and _setup_vocabularies.                                                *)
(***************************************************************************)
Digits1 == Rep(Digit, 1, 0 - 1)

Dots23 == Rep(Lit("."), 2, 3)

Dots2 == Rep(Lit("."), 2, 0 - 1)

\* the phone pattern with the country prefix made mandatory
phone_pattern_PrefixRequired ==
    Cat(<<Alt(<<Lit("+91"), Lit("91")>>),
          OneOf({"6", "7", "8", "9"}), Rep(Digit, 9, 9)>>)

\* (?:\+91|91)?[6-9]\d{9}
phone_pattern ==
    Cat(<<Opt(Alt(<<Lit("+91"), Lit("91")>>)),
          OneOf({"6", "7", "8", "9"}), Rep(Digit, 9, 9)>>)

\* (\d{2,3})\.{2,3}(\d{3,4})\.{2,3}(\d{2,3})\.{2,3}(\d{2,3})\.{2,3}(\d{2,3})
fragmented_phone_pattern ==
    Cat(<<Group(1, Rep(Digit, 2, 3)), Dots23, Group(2, Rep(Digit, 3, 4)), Dots23,
          Group(3, Rep(Digit, 2, 3)), Dots23, Group(4, Rep(Digit, 2, 3)), Dots23,
          Group(5, Rep(Digit, 2, 3))>>)

\* \b\d{2,4}\b
number_sequence_pattern == Cat(<<WordBoundary, Rep(Digit, 2, 4), WordBoundary>>)

\* (?:rs\.?|rupees?)  (the rupee sign is not a character of the modelled texts)
CurrencyWord ==
    Alt(<<Cat(<<Lit("rs"), Opt(Lit("."))>>), Cat(<<Lit("rupee"), Opt(Lit("s"))>>)>>)

\* (?:rs\.?|rupees?|rate|rent|price|amount)\s*(\d+(?:,\d+)*(?:\.\d+)?)
price_pattern ==
    Cat(<<Alt(<<CurrencyWord, Lit("rate"), Lit("rent"), Lit("price"),
                Lit("amount")>>),
          Spaces0,
          Group(1, Cat(<<Digits1, Rep(Cat(<<Lit(","), Digits1>>), 0, 0 - 1),
                         Opt(Cat(<<Lit("."), Digits1>>))>>))>>)

\* (?:quote|quoted|offer|charge)\s*(?:rs\.?|rupees?)?\s*(\d+(?:,\d+)*)
quoted_price_pattern ==
    Cat(<<Alt(<<Lit("quote"), Lit("quoted"), Lit("offer"), Lit("charge")>>),
          Spaces0, Opt(CurrencyWord), Spaces0,
          Group(1, Cat(<<Digits1, Rep(Cat(<<Lit(","), Digits1>>), 0, 0 - 1)>>))>>)

\* (\d+)\s*(?:feet?|ft|foot)
truck_length_pattern ==
    Cat(<<Group(1, Digits1), Spaces0,
          Alt(<<Cat(<<Lit("fee"), Opt(Lit("t"))>>), Lit("ft"), Lit("foot")>>)>>)

\* (\d+(?:\.\d+)?)\s*(?:tons?|ton|mt|tonnes?|capacity)
tonnage_pattern ==
    Cat(<<Group(1, Cat(<<Digits1, Opt(Cat(<<Lit("."), Digits1>>))>>)), Spaces0,
          Alt(<<Cat(<<Lit("ton"), Opt(Lit("s"))>>), Lit("ton"), Lit("mt"),
                Cat(<<Lit("tonne"), Opt(Lit("s"))>>), Lit("capacity")>>)>>)

\* [A-Za-z\s]+?
PlaceChars == RepLazy(OneOf(UpperChars \cup LowerChars \cup WhitespaceChars), 1, 0 - 1)

\* (?:\s|$|[,.])
PlaceEnd == Alt(<<Space, EndOfString, OneOf({",", "."})>>)

\* \b(?:from|to|going|coming|pickup|drop|delivery)\s+([A-Za-z\s]+?)(?:\s|$|[,.])
location_pattern ==
    Cat(<<WordBoundary,
          Alt(<<Lit("from"), Lit("to"), Lit("going"), Lit("coming"),
                Lit("pickup"), Lit("drop"), Lit("delivery")>>),
          Spaces1, Group(1, PlaceChars), PlaceEnd>>)

\* from\s+([A-Za-z\s]+?)\s+to\s+([A-Za-z\s]+?)(?:\s|$|[,.])
from_to_pattern ==
    Cat(<<Lit("from"), Spaces1, Group(1, PlaceChars), Spaces1, Lit("to"), Spaces1,
          Group(2, PlaceChars), PlaceEnd>>)

load_pitch_patterns ==
    << \* (?:we have|got|available)\s+(?:a|one)?\s*load
       Cat(<<Alt(<<Lit("we have"), Lit("got"), Lit("available")>>), Spaces1,
             Opt(Alt(<<Lit("a"), Lit("one")>>)), Spaces0, Lit("load")>>),
       \* load\s+(?:is\s+)?available
       Cat(<<Lit("load"), Spaces1, Opt(Cat(<<Lit("is"), Spaces1>>)),
             Lit("available")>>),
       \* there\s+(?:is\s+)?(?:a\s+)?load
       Cat(<<Lit("there"), Spaces1, Opt(Cat(<<Lit("is"), Spaces1>>)),
             Opt(Cat(<<Lit("a"), Spaces1>>)), Lit("load")>>),
       \* load\s+for\s+you
       Cat(<<Lit("load"), Spaces1, Lit("for"), Spaces1, Lit("you")>>) >>

no_load_patterns ==
    << \* no\s+load\s+available
       Cat(<<Lit("no"), Spaces1, Lit("load"), Spaces1, Lit("available")>>),
       \* don\'t\s+have\s+(?:any\s+)?load
       Cat(<<Lit("don't"), Spaces1, Lit("have"), Spaces1,
             Opt(Cat(<<Lit("any"), Spaces1>>)), Lit("load")>>),
       \* no\s+load\s+(?:right\s+now|currently)
       Cat(<<Lit("no"), Spaces1, Lit("load"), Spaces1,
             Alt(<<Cat(<<Lit("right"), Spaces1, Lit("now")>>),
                   Lit("currently")>>)>>),
       \* sorry.*no\s+load
       Cat(<<Lit("sorry"), Rep(AnyChar, 0, 0 - 1), Lit("no"), Spaces1,
             Lit("load")>>) >>

price_discussion_patterns ==
    << \* what\s+(?:is\s+the\s+)?(?:rate|price|amount)
       Cat(<<Lit("what"), Spaces1,
             Opt(Cat(<<Lit("is"), Spaces1, Lit("the"), Spaces1>>)),
             Alt(<<Lit("rate"), Lit("price"), Lit("amount")>>)>>),
       \* how\s+much
       Cat(<<Lit("how"), Spaces1, Lit("much")>>),
       \* tell\s+me\s+(?:the\s+)?(?:rate|price)
       Cat(<<Lit("tell"), Spaces1, Lit("me"), Spaces1,
             Opt(Cat(<<Lit("the"), Spaces1>>)),
             Alt(<<Lit("rate"), Lit("price")>>)>>),
       \* rate\s+(?:is\s+)?what
       Cat(<<Lit("rate"), Spaces1, Opt(Cat(<<Lit("is"), Spaces1>>)),
             Lit("what")>>) >>

\* the vocabulary as the list of (type, variation) pairs in iteration order
truck_type_vocab ==
    << <<"open", <<"open", "open truck", "open vehicle", "open body",
                   "goods vehicle", "half body">> >>,
       <<"container", <<"container", "closed", "closed vehicle", "full body",
                        "cantener", "containr", "box">> >>,
       <<"multi_axle", <<"multi axle", "multi-axle", "mxl", "multiaxle",
                         "trailer">> >>,
       <<"single_axle", <<"single axle", "single-axle", "sxl", "single axel">> >> >>

location_vocab ==
    << <<"bangalore", <<"bangalore", "bengaluru", "blr", "banglore">> >>,
       <<"hyderabad", <<"hyderabad", "hyd", "secunderabad", "cyberabad">> >>,
       <<"chennai", <<"chennai", "madras", "channai">> >>,
       <<"mumbai", <<"mumbai", "bombay", "mumbay">> >>,
       <<"coimbatore", <<"coimbatore", "kovai", "coimbtore">> >>,
       <<"madurai", <<"madurai", "mathurai">> >>,
       <<"tumakuru", <<"tumakuru", "tumkur", "tumkuru">> >>,
       <<"gujarat", <<"gujarat", "gujrat", "gujarath">> >> >>

fo_indicators == <<"trucker", "fo", "field officer", "driver">>

shipper_indicators == <<"shipper", "client", "customer", "booking">>

ti_indicators == <<"ti", "traffic incharge", "operator", "agent">>

(***************************************************************************)
(* EntityExtractionAgent: _parse_conversation and _identify_speaker_type.  *)
(* A turn is [speaker |-> label, text |-> utterance].                      *)
(***************************************************************************)
RECURSIVE UpperRange(_, _, _)
UpperRange(s, lo, hi) ==
    IF lo > hi THEN ""
    ELSE IF lo = hi THEN UpperChar(Char(s, lo))
    ELSE UpperRange(s, lo, (lo + hi) \div 2) \o UpperRange(s, ((lo + hi) \div 2) + 1, hi)

\* str.upper()
Upper(s) == UpperRange(s, 1, Len(s))

RECURSIVE TitleRange(_, _, _)
TitleRange(s, lo, hi) ==
    IF lo > hi THEN ""
    ELSE IF lo = hi
         THEN IF lo > 1 /\ IsLetter(Char(s, lo - 1)) THEN LowerChar(Char(s, lo))
              ELSE UpperChar(Char(s, lo))
    ELSE TitleRange(s, lo, (lo + hi) \div 2) \o TitleRange(s, ((lo + hi) \div 2) + 1, hi)

\* str.title(): a letter is upper case after a non-letter, lower case after
\* a letter
Title(s) == TitleRange(s, 1, Len(s))

RECURSIVE RemoveRange(_, _, _, _)
RemoveRange(s, c, lo, hi) ==
    IF lo > hi THEN ""
    ELSE IF lo = hi THEN (IF Char(s, lo) = c THEN "" ELSE Char(s, lo))
    ELSE RemoveRange(s, c, lo, (lo + hi) \div 2)
         \o RemoveRange(s, c, ((lo + hi) \div 2) + 1, hi)

\* s.replace(c, '') for a single character c
Remove(s, c) == RemoveRange(s, c, 1, Len(s))

RECURSIVE JoinFrom(_, _, _)
JoinFrom(xs, sep, k) ==
    IF k > Len(xs) THEN ""
    ELSE IF k = Len(xs) THEN xs[k]
    ELSE xs[k] \o sep \o JoinFrom(xs, sep, k + 1)

\* sep.join(xs)
Join(xs, sep) == JoinFrom(xs, sep, 1)

RECURSIVE Filter(_, _)
\* the entries of xs whose index is in keep, in order
Filter(xs, keep) ==
    IF Len(xs) = 0 THEN <<>>
    ELSE Filter(SubSeq(xs, 1, Len(xs) - 1), keep)
         \o (IF Len(xs) \in keep THEN <<xs[Len(xs)]>> ELSE <<>>)

IdentifySpeakerType(speaker, text) ==
    LET speaker_lower == Lower(speaker)
        text_lower == Lower(text)
    IN IF AnyIn(fo_indicators, speaker_lower) THEN "fo"
       ELSE IF AnyIn(shipper_indicators, speaker_lower) THEN "shipper"
       ELSE IF AnyIn(ti_indicators, speaker_lower) THEN "ti"
       ELSE IF Contains("trucker", speaker_lower) THEN "fo"
       ELSE IF Contains("shipper", speaker_lower) THEN "ti"
       ELSE IF AnyIn(<<"my truck", "our vehicle", "we have truck">>, text_lower)
            THEN "fo"
       ELSE IF AnyIn(<<"load available", "we have load", "rate is">>, text_lower)
            THEN "ti"
       ELSE IF AnyIn(<<"need truck", "want vehicle", "cargo to move">>, text_lower)
            THEN "shipper"
       ELSE "unknown"

ParseConversation(turns) ==
    LET OfType(turn_data, ty) ==
            Filter(turn_data,
                   {i \in 1..Len(turn_data) : turn_data[i].speaker_type = ty})
        Parsed(turn_data) ==
            [turns |-> turn_data,
             full_text |->
                 Join([i \in 1..Len(turn_data) |->
                          turn_data[i].speaker \o ": " \o turn_data[i].text], "\n"),
             fo_turns |-> OfType(turn_data, "fo"),
             shipper_turns |-> OfType(turn_data, "shipper"),
             ti_turns |-> OfType(turn_data, "ti")]
    IN Parsed([i \in 1..Len(turns) |->
                  [speaker |-> Lower(turns[i].speaker), text |-> turns[i].text,
                   speaker_type |->
                       IdentifySpeakerType(Lower(turns[i].speaker), turns[i].text)]])

TextsOf(turn_data) == [i \in 1..Len(turn_data) |-> turn_data[i].text]

(***************************************************************************)
(* EntityExtractionAgent: the deterministic extractors.                    *)
(***************************************************************************)
MatchTexts(s, ms) == [i \in 1..Len(ms) |-> MatchText(s, ms[i])]

LooksLikePhone(number) ==
    Len(number) >= 10 /\ Char(number, 1) \in {"6", "7", "8", "9"}

\* the fragmented pattern tried before the standard one
ExtractPhoneNumbers_FragmentsFirst(full_text) ==
    LET Accept(number, otherwise) ==
            IF LooksLikePhone(number) THEN Some(number) ELSE otherwise
        FromSequences(number_sequences) ==
            IF Len(number_sequences) >= 3
            THEN Accept(Join(SubSeq(number_sequences, 1,
                                    Min(5, Len(number_sequences))), ""), None)
            ELSE None
        FromDirect(phone_matches, otherwise) ==
            IF Len(phone_matches) > 0
            THEN Some(MatchText(full_text, phone_matches[1]))
            ELSE otherwise
        FromFragments(fragmented_match, otherwise) ==
            IF ~IsNone(fragmented_match)
            THEN Accept(Join([k \in 1..5 |->
                                 GroupText(full_text, Get(fragmented_match), k)], ""),
                        otherwise)
            ELSE otherwise
    IN FromFragments(Search(fragmented_phone_pattern, full_text),
           FromDirect(FindAll(phone_pattern, full_text),
               FromSequences(MatchTexts(full_text,
                                 FindAll(number_sequence_pattern, full_text)))))

\* the three methods in the order the code tries them; each hands over to
\* the next when it returns nothing
ExtractPhoneNumbers(full_text) ==
    LET Accept(number, otherwise) ==
            IF LooksLikePhone(number) THEN Some(number) ELSE otherwise
        FromSequences(number_sequences) ==
            IF Len(number_sequences) >= 3
            THEN Accept(Join(SubSeq(number_sequences, 1,
                                    Min(5, Len(number_sequences))), ""), None)
            ELSE None
        FromFragments(fragmented_match, otherwise) ==
            IF ~IsNone(fragmented_match)
            THEN Accept(Join([k \in 1..5 |->
                                 GroupText(full_text, Get(fragmented_match), k)], ""),
                        otherwise)
            ELSE otherwise
        FromDirect(phone_matches, otherwise) ==
            IF Len(phone_matches) > 0
            THEN Some(MatchText(full_text, phone_matches[1]))
            ELSE otherwise
    IN FromDirect(FindAll(phone_pattern, full_text),
           FromFragments(Search(fragmented_phone_pattern, full_text),
               FromSequences(MatchTexts(full_text,
                                 FindAll(number_sequence_pattern, full_text)))))

\* _normalize_location of the agent
NormalizeLocation(location) ==
    LET location_clean == Strip(Lower(location))
        hits == {k \in 1..Len(location_vocab) :
                    AnyIn(location_vocab[k][2], location_clean)}
    IN IF hits # {}
       THEN Title(location_vocab[CHOOSE k \in hits : \A j \in hits : k <= j][1])
       ELSE Title(Strip(location))

NoLocations == [from |-> None, to |-> None]

ExtractLocationsEnhanced(text) ==
    LET Groups(location_matches) ==
            [i \in 1..Len(location_matches) |->
                GroupText(text, location_matches[i], 1)]
        Kept(found) == Filter(found, {i \in 1..Len(found) : Strip(found[i]) # ""})
        Normalized(kept) == [i \in 1..Len(kept) |-> NormalizeLocation(kept[i])]
        Fallback(normalized_locations) ==
            IF Len(normalized_locations) >= 2
            THEN [from |-> Some(normalized_locations[1]),
                  to |-> Some(normalized_locations[2])]
            ELSE IF Len(normalized_locations) = 1
                 THEN IF Contains("from", Lower(text))
                      THEN [NoLocations EXCEPT !.from = Some(normalized_locations[1])]
                      ELSE IF Contains("to", Lower(text))
                           THEN [NoLocations EXCEPT
                                     !.to = Some(normalized_locations[1])]
                           ELSE NoLocations
            ELSE NoLocations
        FromTo(from_to_match, otherwise) ==
            IF ~IsNone(from_to_match)
            THEN [from |-> Some(NormalizeLocation(
                               Strip(GroupText(text, Get(from_to_match), 1)))),
                  to |-> Some(NormalizeLocation(
                               Strip(GroupText(text, Get(from_to_match), 2))))]
            ELSE otherwise
    IN FromTo(SearchI(from_to_pattern, text),
              Fallback(Normalized(Kept(Groups(FindAllI(location_pattern, text))))))

\* a location that passes "if locations.get(...)": set and not empty
Truthy(loc) == IF ~IsNone(loc) /\ Get(loc) # "" THEN loc ELSE None

(***************************************************************************)
(* fuzz.partial_ratio(s1, s2) > 85 as _fuzzy_match_truck_type uses it.     *)
(* The library scores the shorter string against the windows              *)
(* longer[start : start + len(shorter)] that its matching blocks select   *)
(* and returns the best ratio.  Which windows are selected depends on the  *)
(* matcher installed with the library, so the comparison is                *)
(*   "above"  when the shorter string occurs in the longer one (100),      *)
(*   "below"  when no window at all has a ratio above the threshold,       *)
(*   "either" otherwise.                                                   *)
(***************************************************************************)
partial_ratio_threshold == 85

Window(longer, start, n) == SubSeq(longer, start, Min(start + n - 1, Len(longer)))

\* the ratio of the shorter string and a window, when it is above the
\* threshold; the count of the window's characters that occur in the shorter
\* string bounds the matched characters and is tried first
WindowAbove(shorter, w) ==
    LET cs == {Char(shorter, i) : i \in 1..Len(shorter)}
        common == Cardinality({i \in 1..Len(w) : Char(w, i) \in cs})
    IN /\ RoundHalfEven(200 * common, Len(shorter) + Len(w)) > partial_ratio_threshold
       /\ FuzzRatio(shorter, w) > partial_ratio_threshold

PartialRatioAbove(s1, s2) ==
    LET shorter == IF Len(s1) <= Len(s2) THEN s1 ELSE s2
        longer == IF Len(s1) <= Len(s2) THEN s2 ELSE s1
    IN IF Len(shorter) = 0 THEN "below"
       ELSE IF Contains(shorter, longer) THEN "above"
       ELSE IF \E start \in 1..Len(longer) :
                  WindowAbove(shorter, Window(longer, start, Len(shorter)))
            THEN "either"
       ELSE "below"

RECURSIVE TruckTypeFrom(_, _, _)
\* the values the vocabulary loop can return from entry (ti, vi) on
TruckTypeFrom(text_lower, ti, vi) ==
    IF ti > Len(truck_type_vocab) THEN {None}
    ELSE IF vi > Len(truck_type_vocab[ti][2])
         THEN TruckTypeFrom(text_lower, ti + 1, 1)
    ELSE LET variation == truck_type_vocab[ti][2][vi]
             hit == {Some(Upper(truck_type_vocab[ti][1]))}
             score == PartialRatioAbove(variation, text_lower)
         IN IF Contains(variation, text_lower) \/ score = "above" THEN hit
            ELSE IF score = "below" THEN TruckTypeFrom(text_lower, ti, vi + 1)
            ELSE hit \cup TruckTypeFrom(text_lower, ti, vi + 1)

\* _fuzzy_match_truck_type(text): the set of values it can return
FuzzyMatchTruckType(text) == TruckTypeFrom(Lower(text), 1, 1)

(***************************************************************************)
(* _extract_from_fo_speech, _extract_from_shipper_speech and               *)
(* _extract_deterministic_entities.  truck_type is the value that          *)
(* _fuzzy_match_truck_type returned.                                       *)
(***************************************************************************)
NoDeterministic ==
    [fo_from_location |-> None, fo_to_location |-> None, fo_truck_type |-> None,
     fo_tonnage |-> None, fo_truck_length |-> None,
     shipper_quoted_price |-> None, fo_quoted_price |-> None,
     fo_shared_number |-> None]

ExtractFromFoSpeech(entities_in, fo_text, truck_type) ==
    LET Update(tonnage_match, length_match, price_match, locations) ==
            [entities_in EXCEPT
                !.fo_truck_type = IF IsNone(truck_type) THEN @ ELSE truck_type,
                !.fo_tonnage =
                    IF IsNone(tonnage_match) THEN @
                    ELSE ParseFloat(GroupText(fo_text, Get(tonnage_match), 1)),
                !.fo_truck_length =
                    IF IsNone(length_match) THEN @
                    ELSE ParseInt(GroupText(fo_text, Get(length_match), 1)),
                !.fo_quoted_price =
                    IF IsNone(price_match) THEN @
                    ELSE ParseFloat(Replace(GroupText(fo_text, Get(price_match), 1),
                                            ",", "")),
                !.fo_from_location =
                    IF IsNone(Truthy(locations.from)) THEN @ ELSE locations.from,
                !.fo_to_location =
                    IF IsNone(Truthy(locations.to)) THEN @ ELSE locations.to]
    IN Update(SearchI(tonnage_pattern, fo_text),
              SearchI(truck_length_pattern, fo_text),
              SearchI(price_pattern, fo_text),
              ExtractLocationsEnhanced(fo_text))

ExtractFromShipperSpeech(entities_in, shipper_text) ==
    LET Update(all_matches) ==
            IF Len(all_matches) > 0
            THEN [entities_in EXCEPT !.shipper_quoted_price =
                     ParseFloat(Replace(GroupText(shipper_text, all_matches[1], 1),
                                        ",", ""))]
            ELSE entities_in
    IN Update(FindAllI(price_pattern, shipper_text)
              \o FindAllI(quoted_price_pattern, shipper_text))

FoText(conversation_data) == Join(TextsOf(conversation_data.fo_turns), " ")

ShipperText(conversation_data) ==
    Join(TextsOf(conversation_data.shipper_turns \o conversation_data.ti_turns), " ")

ExtractDeterministicEntities(conversation_data, truck_type) ==
    LET FromFo(fo_text) ==
            IF fo_text # ""
            THEN ExtractFromFoSpeech(NoDeterministic, fo_text, truck_type)
            ELSE NoDeterministic
        FromShipper(entities_in, shipper_text) ==
            IF shipper_text # ""
            THEN ExtractFromShipperSpeech(entities_in, shipper_text)
            ELSE entities_in
    IN [FromShipper(FromFo(FoText(conversation_data)), ShipperText(conversation_data))
           EXCEPT !.fo_shared_number =
                      ExtractPhoneNumbers(conversation_data.full_text)]

\* the values _fuzzy_match_truck_type can return for the trucker's text
TruckTypeOutcomes(conversation_data) ==
    IF FoText(conversation_data) # ""
    THEN FuzzyMatchTruckType(FoText(conversation_data))
    ELSE {None}

(***************************************************************************)
(* _extract_conversational_entities.  Its subject is the lower-cased       *)
(* full text, so the IGNORECASE searches are plain searches here.          *)
(***************************************************************************)
AnySearch(patterns, text) ==
    \E k \in 1..Len(patterns) : ~IsNone(Search(patterns[k], text))

number_exchange_indicators ==
    <<"mobile number", "phone number", "your number", "tell me your number",
      "give me your number", "share your number">>

\* \d{10}
TenDigits == Rep(Digit, 10, 10)

\* \d{2,3}\.{2,}\d{3,4}\.{2,}\d{2,3}\.{2,}\d{2,3}\.{2,}\d{2,3}
LongDotsPhone ==
    Cat(<<Rep(Digit, 2, 3), Dots2, Rep(Digit, 3, 4), Dots2, Rep(Digit, 2, 3), Dots2,
          Rep(Digit, 2, 3), Dots2, Rep(Digit, 2, 3)>>)

WasNumberExchanged(full_text) ==
    \/ AnyIn(number_exchange_indicators, full_text)
    \/ ~IsNone(Search(TenDigits, Remove(Remove(Remove(full_text, " "), "."), "-")))
    \/ ~IsNone(Search(fragmented_phone_pattern, full_text))
    \/ ~IsNone(Search(LongDotsPhone, full_text))

ExtractConversationalEntities(conversation_data) ==
    LET full_text == Lower(conversation_data.full_text)
    IN [did_ti_pitch_load |->
            \/ AnySearch(load_pitch_patterns, full_text)
            \/ AnyIn(<<"load for gujarat", "load of yours", "load available">>,
                     full_text),
        was_price_discussed |->
            \/ AnySearch(price_discussion_patterns, full_text)
            \/ ~IsNone(Search(price_pattern, full_text))
            \/ Contains("rate", full_text)
            \/ Contains("capacity", full_text)
            \/ Contains("ton", full_text),
        did_ti_say_no_load |-> AnySearch(no_load_patterns, full_text),
        was_number_exchanged |-> WasNumberExchanged(full_text)]

(***************************************************************************)
(* _build_entities_object.  ExtractedEntities (models/entities_model.py)   *)
(* declares none of the fo_*, shipper_* and flag keywords, so of those     *)
(* only the strings of special_requirements and the confidence entries     *)
(* reach the record.  A confidence entry is [key, num, den]: the value     *)
(* num / den in hundredths.                                                *)
(***************************************************************************)
DeterministicKeys ==
    <<"fo_from_location", "fo_to_location", "fo_truck_type", "fo_tonnage",
      "fo_truck_length", "shipper_quoted_price", "fo_quoted_price",
      "fo_shared_number">>

ConversationalKeys ==
    <<"did_ti_pitch_load", "was_price_discussed", "did_ti_say_no_load",
      "was_number_exchanged">>

deterministic_confidence == 90

conversational_confidence == 80

RECURSIVE SumNum(_)
SumNum(entries) ==
    IF Len(entries) = 0 THEN 0
    ELSE entries[Len(entries)].num + SumNum(SubSeq(entries, 1, Len(entries) - 1))

ConfidenceScores(deterministic, conversational) ==
    LET populated ==
            Filter(DeterministicKeys,
                   {k \in 1..Len(DeterministicKeys) :
                       ~IsNone(deterministic[DeterministicKeys[k]])})
        entries ==
            [k \in 1..Len(populated) |->
                [key |-> populated[k], num |-> deterministic_confidence, den |-> 1]]
            \o [k \in 1..Len(ConversationalKeys) |->
                [key |-> ConversationalKeys[k], num |-> conversational_confidence,
                 den |-> 1]]
    IN entries \o <<[key |-> "overall", num |-> SumNum(entries), den |-> Len(entries)]>>

RECURSIVE NatStr(_)
\* str(n) of a natural number
NatStr(n) ==
    IF n < 10 THEN Char("0123456789", n + 1)
    ELSE NatStr(n \div 10) \o Char("0123456789", (n % 10) + 1)

\* str(x) of a non-negative float given in hundredths
FloatStr(h) ==
    NatStr(h \div 100) \o "."
    \o (IF h % 10 = 0 THEN NatStr((h % 100) \div 10)
        ELSE NatStr((h % 100) \div 10) \o NatStr(h % 10))

BoolStr(b) == IF b THEN "True" ELSE "False"

BuildEntitiesObject(deterministic, conversational) ==
    [DefaultEntities EXCEPT
        !.truck_type = deterministic.fo_truck_type,
        !.truck_length = deterministic.fo_truck_length,
        !.tonnage = deterministic.fo_tonnage,
        !.current_location = deterministic.fo_from_location,
        !.preferred_routes =
            deterministic.fo_from_location \o deterministic.fo_to_location,
        !.expected_rate = deterministic.fo_quoted_price,
        !.phone_number = deterministic.fo_shared_number,
        !.available_immediately = TRUE,
        !.confidence_scores = ConfidenceScores(deterministic, conversational),
        !.special_requirements =
            <<"fo_shared_number:" \o
                  (IF IsNone(deterministic.fo_shared_number) THEN "None"
                   ELSE Get(deterministic.fo_shared_number)),
              "shipper_quoted_price:" \o
                  (IF IsNone(deterministic.shipper_quoted_price) THEN "None"
                   ELSE FloatStr(Get(deterministic.shipper_quoted_price))),
              "did_ti_pitch_load:" \o BoolStr(conversational.did_ti_pitch_load),
              "was_price_discussed:" \o BoolStr(conversational.was_price_discussed),
              "did_ti_say_no_load:" \o BoolStr(conversational.did_ti_say_no_load),
              "was_number_exchanged:" \o
                  BoolStr(conversational.was_number_exchanged)>>]

(***************************************************************************)
(* The knowledge base (knowledge/__init__.py) and                          *)
(* _apply_knowledge_normalization.                                         *)
(***************************************************************************)
\* truck_classifications: each standard type with its "aliases" entry, in
\* iteration order ("specialized" has no such entry)
truck_classifications ==
    << <<"container", <<"full body", "closed body", "box", "cantener",
                        "container truck">> >>,
       <<"open", <<"half body", "open body", "tata body", "open truck",
                   "open vehicle">> >>,
       <<"trailer", <<"patta", "semi-trailer", "multi-axle", "MXL",
                      "multi-axle container", "MAV">> >>,
       <<"lcv", <<"light commercial vehicle", "tempo", "small truck", "mini truck",
                  "chota hathi">> >>,
       <<"hmv", <<"heavy motor vehicle", "big truck", "heavy truck">> >>,
       <<"specialized", <<>> >> >>

\* location_mappings["major_cities"]: city, primary name, aliases
major_cities ==
    << <<"bangalore", "Bangalore", <<"bengaluru", "bangaluru", "banglore",
                                     "bengalore">> >>,
       <<"mumbai", "Mumbai", <<"bombay", "mumbay", "mumbi">> >>,
       <<"chennai", "Chennai", <<"madras", "channai", "chenai">> >>,
       <<"delhi", "Delhi", <<"new_delhi", "dilli", "delhi_ncr">> >>,
       <<"pune", "Pune", <<"poona", "punay">> >>,
       <<"hyderabad", "Hyderabad", <<"hyd", "hydrabad", "secunderabad">> >>,
       <<"coimbatore", "Coimbatore", <<"kovai", "coimbtore", "coimbator">> >> >>

\* TruckingKnowledgeBase.normalize_location
KbNormalizeLocation(location_text) ==
    LET location_lower == Lower(location_text)
        hits == {k \in 1..Len(major_cities) :
                    \/ location_lower = major_cities[k][1]
                    \/ \E a \in 1..Len(major_cities[k][3]) :
                          location_lower = Lower(major_cities[k][3][a])}
    IN IF hits # {}
       THEN major_cities[CHOOSE k \in hits : \A j \in hits : k <= j][2]
       ELSE location_text

RECURSIVE KbTruckTypeFrom(_, _, _)
\* the truck_classifications loop from entry k on
KbTruckTypeFrom(k, text_lower, truck_type) ==
    IF k > Len(truck_classifications) THEN truck_type
    ELSE LET standard_type == truck_classifications[k][1]
             aliases == truck_classifications[k][2]
             found == \E a \in 1..Len(aliases) : Contains(Lower(aliases[a]), text_lower)
         IN KbTruckTypeFrom(k + 1, text_lower,
                IF found /\ standard_type = "container" THEN Some("CONTAINER")
                ELSE IF found /\ standard_type = "open" THEN Some("OPEN")
                ELSE truck_type)

ApplyKnowledgeNormalization(e, full_text) ==
    [e EXCEPT
        !.truck_type = IF full_text # ""
                       THEN KbTruckTypeFrom(1, Lower(full_text), @)
                       ELSE @,
        !.current_location = IF ~IsNone(@) /\ Get(@) # ""
                             THEN Some(KbNormalizeLocation(Get(@)))
                             ELSE @,
        !.preferred_routes = [i \in 1..Len(@) |-> KbNormalizeLocation(@[i])]]

(***************************************************************************)
(* Transcripts, and extract_entities as a state machine.                   *)
(***************************************************************************)
Turn(speaker, text) == [speaker |-> speaker, text |-> text]

TurnPool ==
    { Turn("Shipper", "Yes, tell me your number, your mobile number."),
      Turn("Trucker", "98... 9867... 33... 74... 13."),
      Turn("Trucker", "My number is 9876543210"),
      Turn("Trucker", "+919876543210"),
      Turn("Shipper", "Call 9123456789, tell me your number"),
      Turn("Trucker", "98..9867..33..74..13"),
      Turn("Trucker", "98 12..3456..78..90..12"),
      Turn("Trucker", "I need a 25 feet open vehicle, going from Tumakuru to Madurai"),
      Turn("Shipper", "I need a 25 feet open vehicle, going from Tumakuru to Madurai"),
      Turn("TI", "Sorry, no load available. Rate is 20,000"),
      Turn("A", "my truck is 20 ft containr 7.5 ton"),
      Turn("Trucker", "Rate 9500, 25 feet truck, 1200 km, 15 ton") }

\* the transcripts of at most MaxTurns turns
Transcripts == UNION { [1..n -> TurnPool] : n \in 0..MaxTurns }

InitExtract ==
    /\ pc = "transcript"
    /\ transcript \in Transcripts
    /\ entities = DefaultEntities
    /\ catalogue = <<>>
    /\ results = <<>>
    /\ extracted = NoExtraction
    /\ current_text = ""
    /\ calls = <<>>
    /\ config = Config
    /\ response = NoResponse
    /\ processing_history = <<>>

\* extract_entities(transcript)
ExtractEntities ==
    /\ pc = "transcript"
    /\ \E conversation_data \in {ParseConversation(transcript)} :
         \E truck_type \in TruckTypeOutcomes(conversation_data) :
           \E deterministic \in
                  {ExtractDeterministicEntities(conversation_data, truck_type)},
              conversational \in {ExtractConversationalEntities(conversation_data)} :
             /\ extracted' = [done |-> TRUE,
                              full_text |-> conversation_data.full_text,
                              speaker_types |->
                                  [i \in 1..Len(transcript) |->
                                      conversation_data.turns[i].speaker_type],
                              deterministic |-> deterministic,
                              conversational |-> conversational]
             /\ entities' = ApplyKnowledgeNormalization(
                                BuildEntitiesObject(deterministic, conversational),
                                conversation_data.full_text)
    /\ pc' = "extracted"
    /\ UNCHANGED <<transcript, catalogue, results, current_text, calls, config,
                   response, processing_history>>

NextExtract == ExtractEntities

SpecExtract == InitExtract /\ [][NextExtract]_vars

(***************************************************************************)
(* Properties of the extraction.                                           *)
(***************************************************************************)
MobileLeads == {"6", "7", "8", "9"}

IsTenDigitMobile(number) ==
    Len(number) = 10 /\ AllDigits(number) /\ Char(number, 1) \in MobileLeads

\* the positions where a maximal run of digits starts
RunStarts(s) ==
    {p \in 1..Len(s) : IsDigit(Char(s, p)) /\ (p = 1 \/ ~IsDigit(Char(s, p - 1)))}

\* the length of the maximal run of digits that starts at p
DigitRun(s, p) == RunLen(Digit, s, p, 0 - 1)

\* the ten-digit mobile numbers that stand in a text as a run of their own
TenDigitNumbers(text) ==
    {SubSeq(text, p, p + 9) :
        p \in {q \in RunStarts(text) :
                  DigitRun(text, q) = 10 /\ Char(text, q) \in MobileLeads}}

\* the runs of digits with a mobile number inside: a digit 6..9 followed by
\* nine more digits
MobileRuns(s) ==
    {p \in RunStarts(s) :
        \E q \in p..(p + DigitRun(s, p) - 10) : Char(s, q) \in MobileLeads}

\* the line of full_text that turn k makes
LineOf(k) == Lower(transcript[k].speaker) \o ": " \o transcript[k].text

HasRequest(k) == Contains("tell me your number", Lower(transcript[k].text))

RequestBefore(j) == \E i \in 1..(j - 1) : HasRequest(i)

\* the ten-digit numbers of the turns that follow a request for the number
LaterNumbers ==
    UNION {TenDigitNumbers(transcript[j].text) :
              j \in {k \in 1..Len(transcript) : RequestBefore(k)}}

\* turn j is the first turn with a mobile number, and the first run of
\* digits that holds one is a ten-digit run of the utterance
FirstNumberIn(j) ==
    /\ \A k \in 1..(j - 1) : MobileRuns(LineOf(k)) = {}
    /\ MobileRuns(LineOf(j)) # {}
    /\ LET p == SetMin(MobileRuns(LineOf(j)))
       IN DigitRun(LineOf(j), p) = 10 /\ p > Len(transcript[j].speaker) + 2

FirstNumberOf(j) ==
    LET p == SetMin(MobileRuns(LineOf(j)))
    IN SubSeq(LineOf(j), p, p + 9)

\* C9: whenever extraction returns a phone number (fo_shared_number, stored
\* as phone_number) it is a string of exactly 10 digits that starts with
\* 6, 7, 8 or 9.
C9_PhoneIsTenDigitMobile ==
    pc = "extracted" =>
        /\ extracted.deterministic.fo_shared_number = entities.phone_number
        /\ \/ IsNone(entities.phone_number)
           \/ IsTenDigitMobile(Get(entities.phone_number))

ReplaceMatches(s, ms, repl) ==
    Join([k \in 1..(Len(ms) + 1) |->
             SubSeq(s, IF k = 1 THEN 1 ELSE ms[k - 1].e,
                       IF k > Len(ms) THEN Len(s) ELSE ms[k].start - 1)], repl)

\* re.sub(pattern, repl, s) for a pattern without empty matches
Sub(n, repl, s) == ReplaceMatches(s, FindAll(n, s), repl)

\* re.sub(pattern, repl, s, flags=re.IGNORECASE)
SubI(n, repl, s) == ReplaceMatches(s, FindAllI(n, s), repl)

\* ASCII characters that [^\w\s\-\.] matches
PunctuationChars ==
    {"!", "#", "$", "%", "&", "(", ")", "*", "+", ",", "/", ":", ";",
     "<", "=", ">", "?", "@", "[", "]", "^", "{", "|", "}", "~"}

CleanText(s) == Strip(Sub(OneOf(PunctuationChars), " ", Sub(Spaces1, " ", s)))

\* \bft\b, \bfoot\b, \bmt\b, \btonne[s]?\b
unit_patterns ==
    << <<Cat(<<WordBoundary, Lit("ft"), WordBoundary>>), "feet">>,
       <<Cat(<<WordBoundary, Lit("foot"), WordBoundary>>), "feet">>,
       <<Cat(<<WordBoundary, Lit("mt"), WordBoundary>>), "tons">>,
       <<Cat(<<WordBoundary, Lit("tonne"), Opt(OneOf({"s"})), WordBoundary>>),
         "tons">> >>

RECURSIVE NormalizeUnitsFrom(_, _)
\* the substitutions from the k-th on, each applied to the result of the last
NormalizeUnitsFrom(k, s) ==
    IF k > Len(unit_patterns) THEN s
    ELSE NormalizeUnitsFrom(k + 1, SubI(unit_patterns[k][1], unit_patterns[k][2], s))

NormalizeUnits(s) == NormalizeUnitsFrom(1, s)

(***************************************************************************)
(* The text normalizer as a state machine: a text built from TextTokens,   *)
(* and the two methods applied to it in any order, MaxCalls times at most. *)
(***************************************************************************)
TextTokens == {"a", " ", ",", "ft", "MT", "tonnes", "-"}

RECURSIVE Concat(_)
Concat(ws) == IF Len(ws) = 0 THEN "" ELSE Head(ws) \o Concat(Tail(ws))

Texts == {Concat(ws) : ws \in UNION {[1..n -> TextTokens] : n \in 0..MaxTokens}}

InitText ==
    /\ pc = "text"
    /\ current_text \in Texts
    /\ calls = <<>>
    /\ config = Config
    /\ response = NoResponse
    /\ processing_history = <<>>
    /\ entities = DefaultEntities
    /\ catalogue = <<>>
    /\ results = <<>>
    /\ transcript = <<>>
    /\ extracted = NoExtraction

\* text = clean_text(text)
CleanTextCall ==
    /\ pc = "text"
    /\ Len(calls) < MaxCalls
    /\ current_text' = CleanText(current_text)
    /\ calls' = Append(calls, "clean_text")
    /\ UNCHANGED <<pc, entities, catalogue, results, transcript, extracted, config,
                   response, processing_history>>

\* text = normalize_units(text)
NormalizeUnitsCall ==
    /\ pc = "text"
    /\ Len(calls) < MaxCalls
    /\ current_text' = NormalizeUnits(current_text)
    /\ calls' = Append(calls, "normalize_units")
    /\ UNCHANGED <<pc, entities, catalogue, results, transcript, extracted, config,
                   response, processing_history>>

NextText == CleanTextCall \/ NormalizeUnitsCall

SpecText == InitText /\ [][NextText]_vars

(***************************************************************************)
(* Properties of the text normalizer.                                      *)
(***************************************************************************)
\* C11: the text that clean_text returned is left as it is by another pass
\* of clean_text and holds no two adjacent spaces, and the text that
\* normalize_units(clean_text(s)) returned is left as it is by another pass
\* of the two.
C11_CleanTextIdempotent ==
    /\ (pc = "text" /\ Len(calls) > 0 /\ calls[Len(calls)] = "clean_text")
           => /\ CleanText(current_text) = current_text
              /\ ~Contains("  ", current_text)
    /\ (pc = "text" /\ calls = <<"clean_text", "normalize_units">>)
           => NormalizeUnits(CleanText(current_text)) = current_text

(***************************************************************************)
(* Location normalization as a state machine: a location text built from   *)
(* LocationTokens, and _normalize_location and the knowledge base's        *)
(* normalize_location applied to it, MaxCalls times at most.               *)
(***************************************************************************)
LocationTokens == {" ", "x", "hyd", "Bombay", "pune"}

LocationTexts ==
    {Concat(ws) : ws \in UNION {[1..n -> LocationTokens] : n \in 0..MaxTokens}}

InitLocation ==
    /\ pc = "location"
    /\ current_text \in LocationTexts
    /\ calls = <<>>
    /\ config = Config
    /\ response = NoResponse
    /\ processing_history = <<>>
    /\ entities = DefaultEntities
    /\ catalogue = <<>>
    /\ results = <<>>
    /\ transcript = <<>>
    /\ extracted = NoExtraction

\* location = self._normalize_location(location)
NormalizeLocationCall ==
    /\ pc = "location"
    /\ Len(calls) < MaxCalls
    /\ current_text' = NormalizeLocation(current_text)
    /\ calls' = Append(calls, "_normalize_location")
    /\ UNCHANGED <<pc, entities, catalogue, results, transcript, extracted, config,
                   response, processing_history>>

\* location = trucking_knowledge.normalize_location(location)
KbNormalizeLocationCall ==
    /\ pc = "location"
    /\ Len(calls) < MaxCalls
    /\ current_text' = KbNormalizeLocation(current_text)
    /\ calls' = Append(calls, "normalize_location")
    /\ UNCHANGED <<pc, entities, catalogue, results, transcript, extracted, config,
                   response, processing_history>>

NextLocation == NormalizeLocationCall \/ KbNormalizeLocationCall

SpecLocation == InitLocation /\ [][NextLocation]_vars

\* C12: whatever the input, the text that _normalize_location or the
\* knowledge base's normalize_location returned is not the empty string.
C12_LocationNonEmpty ==
    (pc = "location" /\ Len(calls) > 0) => current_text # ""

(***************************************************************************)
(* Properties of the confidence scores.                                    *)
(***************************************************************************)
\* the fields of the record that extraction fills, each with the key of
\* the deterministic value it is built from
FieldKeys ==
    << <<"truck_type", "fo_truck_type">>, <<"truck_length", "fo_truck_length">>,
       <<"tonnage", "fo_tonnage">>, <<"current_location", "fo_from_location">>,
       <<"expected_rate", "fo_quoted_price">>, <<"phone_number", "fo_shared_number">> >>

\* the entries of confidence_scores other than 'overall'
FieldScores(scores) ==
    Filter(scores, {i \in 1..Len(scores) : scores[i].key # "overall"})

HasScore(scores, key) ==
    \E i \in 1..Len(scores) :
        /\ scores[i].key = key
        /\ 0 <= scores[i].num /\ scores[i].num <= 100 * scores[i].den

\* C13: in the record that extract_entities returns every populated field has
\* a confidence entry with a value in [0,1], and the entry 'overall' is the
\* mean of the other entries, 0.9 for a deterministic and 0.8 for a
\* conversational one.
C13_PopulatedFieldsScored ==
    pc = "extracted" =>
        /\ \A f \in 1..Len(FieldKeys) :
              ~IsNone(entities[FieldKeys[f][1]])
                  => HasScore(entities.confidence_scores, FieldKeys[f][2])
        /\ \E i \in 1..Len(entities.confidence_scores) :
              LET overall == entities.confidence_scores[i]
                  others == FieldScores(entities.confidence_scores)
              IN /\ overall.key = "overall"
                 /\ overall.den = Len(others)
                 /\ overall.num = SumNum(others)
                 /\ \A j \in 1..Len(others) :
                       /\ others[j].den = 1
                       /\ others[j].num =
                              IF \E k \in 1..Len(ConversationalKeys) :
                                     ConversationalKeys[k] = others[j].key
                              THEN conversational_confidence
                              ELSE deterministic_confidence

(***************************************************************************)
(* The matcher under a configuration read from the environment: the        *)
(* thresholds are float(os.getenv(...)) and MATCH_WEIGHTS is the class     *)
(* attribute, both taken by LoadMatchingAgent.__init__ as they are.        *)
(***************************************************************************)
Configs ==
    { Config,
      [Config EXCEPT !.MATCH_WEIGHTS =
          [truck_type |-> 25, tonnage |-> 25, length |-> 25, route_from |-> 25,
           route_to |-> 25, product |-> 25, availability |-> 25]],
      [Config EXCEPT !.MATCH_WEIGHTS =
          [truck_type |-> 0, tonnage |-> 20, length |-> 15, route_from |-> 15,
           route_to |-> 10, product |-> 10, availability |-> 5]],
      [Config EXCEPT !.MATCH_THRESHOLD_HIGH = 4000,
                     !.MATCH_THRESHOLD_LOW = 8500] }

\* LoadMatchingAgent() followed by one call of find_matching_loads on one load
InitConfig ==
    /\ pc = "input"
    /\ config \in Configs
    /\ response = NoResponse
    /\ processing_history = <<>>
    /\ entities \in EntityPool
    /\ catalogue \in {c \in Catalogues : Len(c) = 1}
    /\ results = <<>>
    /\ transcript = <<>>
    /\ extracted = NoExtraction
    /\ current_text = ""
    /\ calls = <<>>

SpecConfig == InitConfig /\ [][Next]_vars

WeightsSumToOne(c) ==
    c.MATCH_WEIGHTS.truck_type + c.MATCH_WEIGHTS.tonnage + c.MATCH_WEIGHTS.length
    + c.MATCH_WEIGHTS.route_from + c.MATCH_WEIGHTS.route_to
    + c.MATCH_WEIGHTS.product + c.MATCH_WEIGHTS.availability = 100

ThresholdsConsistent(c) ==
    /\ 0 <= c.MATCH_THRESHOLD_LOW
    /\ c.MATCH_THRESHOLD_LOW <= c.MATCH_THRESHOLD_MEDIUM
    /\ c.MATCH_THRESHOLD_MEDIUM <= c.MATCH_THRESHOLD_HIGH
    /\ c.MATCH_THRESHOLD_HIGH <= 10000

\* C14: a configuration whose weights do not sum to 1 or whose thresholds are
\* inconsistent never leads to MatchResults: results are only produced, and
\* overall scores only lie in [0, 1], under a valid configuration.
C14_BadConfigSurfaced ==
    (pc = "matched" /\ Len(results) > 0)
        => /\ WeightsSumToOne(config)
           /\ ThresholdsConsistent(config)
           /\ \A i \in 1..Len(results) :
                  0 <= results[i].overall_score /\ results[i].overall_score <= 10000

(***************************************************************************)
(* process_transcript (main.py): extract_entities, then                    *)
(* find_matching_loads on the extracted record.                            *)
(***************************************************************************)
ScenarioText == "I need a 25 feet open vehicle, going from Tumakuru to Madurai"

\* the scenario's turn under the speaker labels a transcript may carry
ScenarioTurns == {Turn(speaker, ScenarioText) : speaker \in {"Trucker", "Shipper", "Speaker 1"}}

InitPipeline ==
    /\ pc = "transcript"
    /\ transcript \in {<<turn>> : turn \in TurnPool \cup ScenarioTurns}
    /\ catalogue \in {c \in Catalogues : Len(c) <= 1}
    /\ entities = DefaultEntities
    /\ results = <<>>
    /\ extracted = NoExtraction
    /\ current_text = ""
    /\ calls = <<>>
    /\ config = Config
    /\ response = NoResponse
    /\ processing_history = <<>>

NextPipeline == ExtractEntities \/ FindMatchingLoads

SpecPipeline == InitPipeline /\ [][NextPipeline]_vars

\* the catalogue holds an available load Tumakuru -> Madurai, "Open", "25"
HasScenarioLoad(i) ==
    /\ i \in 1..Len(catalogue)
    /\ catalogue[i].from_location = "Tumakuru"
    /\ catalogue[i].to_location = "Madurai"
    /\ catalogue[i].truck_type = "Open"
    /\ catalogue[i].tonnage = Some("25")
    /\ catalogue[i].status = "available"

\* C15: for the single-turn transcript with the scenario text, whatever its
\* speaker label, extract followed by match yields for the scenario load
\* truck_type 1.0, route_from 1.0, route_to 1.0 and overall_score >= 0.6.
C15_ScenarioScores ==
    (/\ pc = "matched"
     /\ Len(transcript) = 1
     /\ transcript[1].text = ScenarioText)
        => \A i \in 1..Len(catalogue) :
               HasScenarioLoad(i)
                   => \E k \in 1..Len(results) :
                          /\ results[k].load_id = catalogue[i].id
                          /\ results[k].detailed_scores.truck_type = 100
                          /\ results[k].detailed_scores.route_from = 100
                          /\ results[k].detailed_scores.route_to = 100
                          /\ results[k].overall_score >= 6000

(***************************************************************************)
(* Independence of the scoring from the other loads and their order.       *)
(***************************************************************************)
Permuted(loads, p) == [i \in 1..Len(loads) |-> loads[p[i]]]

\* the multiset of the elements of a sequence
BagOfSeq(rs) ==
    [r \in {rs[i] : i \in 1..Len(rs)} |-> Cardinality({i \in 1..Len(rs) : rs[i] = r})]

\* what find_matching_loads returns: the results, or the exception
Outcome(trucker_req, loads) ==
    IF AnyScoreRaises(trucker_req, loads) THEN [raised |-> TRUE, bag |-> <<>>]
    ELSE [raised |-> FALSE, bag |-> BagOfSeq(FindMatches(trucker_req, loads))]

PermutationInvariant ==
    pc \in {"matched", "raised"}
        => /\ \A p \in Permutations(1..Len(catalogue)) :
                  Outcome(entities, Permuted(catalogue, p))
                      = [raised |-> pc = "raised", bag |-> BagOfSeq(results)]
           /\ \A k \in 1..Len(results) :
                  <<results[k]>> = FindMatches(entities, <<LoadOf(results[k].load_id)>>)
           /\ pc = "matched"
                  => \A i \in 1..Len(catalogue) :
                         \A r \in {FindMatches(entities, <<catalogue[i]>>)} :
                             Len(r) = 1 => \E k \in 1..Len(results) : results[k] = r[1]

\* C16: the result for an (entities, load) pair is the one computed for that
\* pair alone, the multiset of results is the same for every permutation of
\* the catalogue, and find_matching_loads leaves the entity record, the loads
\* and the configuration as they were.
C16_IndependentScoring ==
    /\ []PermutationInvariant
    /\ [][entities' = entities /\ catalogue' = catalogue /\ config' = config]_vars

\* two loads returned in the opposite of their catalogue order
C16_Witness ==
    /\ pc = "matched"
    /\ Len(catalogue) = 2
    /\ Len(results) = 2
    /\ results[1].load_id = catalogue[2].id
    /\ results[1].overall_score > results[2].overall_score

(***************************************************************************)
(* _match_length applied to every trucker length against one load length.  *)
(***************************************************************************)
MaxLength == 12

\* the trucker lengths tried, in order: None, then 0 .. MaxLength
TruckerLengths == <<None>> \o [k \in 1..(MaxLength + 1) |-> Some(k - 1)]

LoadLengths ==
    {None, Some(""), Some("-"), Some("abc"), Some("4.5"), Some(" 3 "), Some("4"),
     Some("5 ft"), Some("6 FEET"), Some("20")}

InitLength ==
    /\ pc = "length"
    /\ entities = [DefaultEntities EXCEPT !.truck_length = TruckerLengths[1]]
    /\ catalogue \in {<<[SampleLoad EXCEPT !.truck_length = load_length]>> :
                          load_length \in LoadLengths}
    /\ calls = <<>>
    /\ results = <<>>
    /\ transcript = <<>>
    /\ extracted = NoExtraction
    /\ current_text = ""
    /\ config = Config
    /\ response = NoResponse
    /\ processing_history = <<>>

\* one call of _match_length; the next trucker length becomes the input
MatchLengthCall ==
    /\ pc = "length"
    /\ Len(calls) < Len(TruckerLengths)
    /\ calls' = Append(calls, MatchLength(entities.truck_length,
                                          catalogue[1].truck_length))
    /\ entities' = [entities EXCEPT !.truck_length =
                        TruckerLengths[Min(Len(calls) + 2, Len(TruckerLengths))]]
    /\ UNCHANGED <<pc, catalogue, results, transcript, extracted, current_text, config,
                   response, processing_history>>

NextLength == MatchLengthCall

SpecLength == InitLength /\ [][NextLength]_vars

\* the table of the length score, its rows taken in the order they are listed
LengthTable(trucker_length, load_length) ==
    IF IsNone(trucker_length) \/ Get(trucker_length) = 0 \/ IsNone(load_length)
    THEN 70
    ELSE LET parsed == ParseInt(Strip(Replace(Replace(Lower(Get(load_length)),
                                                      "ft", ""), "feet", "")))
         IN IF IsNone(parsed) THEN 70
            ELSE LET t == Get(trucker_length)
                     l == Get(parsed)
                 IN IF t = l THEN 100
                    ELSE IF Abs(t - l) <= 2 THEN 90
                    ELSE IF t > l /\ t - l <= 5 THEN 80
                    ELSE IF t > l THEN 60
                    ELSE IF l - t <= 2 THEN 50
                    ELSE 20

\* C17: every length score is the one of the table, and against a load
\* length that leaves room on both sides each of the seven values 0.7, 1.0,
\* 0.9, 0.8, 0.6, 0.5, 0.2 is produced for some trucker length.
C17_LengthTable ==
    pc = "length"
        => /\ \A k \in 1..Len(calls) :
                  calls[k] = LengthTable(TruckerLengths[k], catalogue[1].truck_length)
           /\ (/\ Len(calls) = Len(TruckerLengths)
               /\ catalogue[1].truck_length \in {Some("4"), Some("5 ft"), Some("6 FEET")})
                  => \A v \in {70, 100, 90, 80, 60, 50, 20} :
                         \E k \in 1..Len(calls) : calls[k] = v

(***************************************************************************)
(* _match_tonnage applied to one trucker tonnage and one load tonnage.     *)
(***************************************************************************)
\* trucker tonnages in hundredths of a ton
TruckerTonnages ==
    {None, Some(0), Some(0 - 100), Some(240), Some(300), Some(360), Some(400),
     Some(720), Some(800), Some(1000), Some(1200), Some(2500)}

LoadTonnages ==
    {None, Some(""), Some("-"), Some("heavy"), Some("0"), Some("3"), Some("6"),
     Some("2.5"), Some("8mt"), Some("10 Tons"), Some("1 ton"), Some("25")}

InitTonnage ==
    /\ pc = "tonnage"
    /\ entities \in {[DefaultEntities EXCEPT !.tonnage = trucker_tonnage] :
                         trucker_tonnage \in TruckerTonnages}
    /\ catalogue \in {<<[SampleLoad EXCEPT !.tonnage = load_tonnage]>> :
                          load_tonnage \in LoadTonnages}
    /\ calls = <<>>
    /\ results = <<>>
    /\ transcript = <<>>
    /\ extracted = NoExtraction
    /\ current_text = ""
    /\ config = Config
    /\ response = NoResponse
    /\ processing_history = <<>>

\* one call of _match_tonnage
MatchTonnageCall ==
    /\ pc = "tonnage"
    /\ calls = <<>>
    /\ calls' = <<MatchTonnage(entities.tonnage, catalogue[1].tonnage)>>
    /\ UNCHANGED <<pc, entities, catalogue, results, transcript, extracted,
                   current_text, config,
                   response, processing_history>>

NextTonnage == MatchTonnageCall

SpecTonnage == InitTonnage /\ [][NextTonnage]_vars

\* the table of the tonnage score in exact arithmetic, t and l in hundredths
TonnageTable(trucker_tonnage, load_tonnage) ==
    IF IsNone(trucker_tonnage) \/ Get(trucker_tonnage) = 0
       \/ IsNone(load_tonnage) \/ Get(load_tonnage) = ""
    THEN 50
    ELSE LET t == Get(trucker_tonnage)
             parsed == ParseFloat(Strip(Replace(Replace(Replace(
                           Lower(Get(load_tonnage)), "mt", ""), "tons", ""), "ton", "")))
         IN IF IsNone(parsed) THEN 50
            ELSE IF t >= Get(parsed) /\ 100 * t <= 120 * Get(parsed) THEN 100
            ELSE IF t >= Get(parsed) THEN 70
            ELSE IF 100 * t >= 80 * Get(parsed) THEN 60
            ELSE 10

\* C18: the tonnage score is the one of the table (0.5 for a missing or
\* unparsable side, 1.0 up to 1.2 x the need, 0.7 above, 0.6 from 0.8 x the
\* need, 0.1 below), and the call never raises.
C18_TonnageTable ==
    (pc = "tonnage" /\ Len(calls) = 1)
        => /\ calls[1] # Raised
           /\ calls[1] = TonnageTable(entities.tonnage, catalogue[1].tonnage)

(***************************************************************************)
(* _match_truck_type applied to one trucker type and one load truck type.  *)
(***************************************************************************)
LoadTruckTypes ==
    {"", "Open", "OPEN TRUCK", "Container", "Closed", "closed container",
     "Goods Vehicle", "Flatbed", "Tanker", "Truck", "trucktype", "TruckType Open",
     "Trucktype: Open", "trucktype-container", "Trucktype Closed",
     "truck type multi axle", "Multi Axle", "truck.type.open", "open/container"}

InitTruckType ==
    /\ pc = "truck_type"
    /\ entities \in {[DefaultEntities EXCEPT !.truck_type = trucker_type] :
                         trucker_type \in {None} \cup {Some(t) : t \in TruckTypeNames}}
    /\ catalogue \in {<<[SampleLoad EXCEPT !.truck_type = load_truck_type]>> :
                          load_truck_type \in LoadTruckTypes}
    /\ calls = <<>>
    /\ results = <<>>
    /\ transcript = <<>>
    /\ extracted = NoExtraction
    /\ current_text = ""
    /\ config = Config
    /\ response = NoResponse
    /\ processing_history = <<>>

\* one call of _match_truck_type
MatchTruckTypeCall ==
    /\ pc = "truck_type"
    /\ calls = <<>>
    /\ calls' = <<MatchTruckType(entities.truck_type, catalogue[1].truck_type)>>
    /\ UNCHANGED <<pc, entities, catalogue, results, transcript, extracted,
                   current_text, config,
                   response, processing_history>>

NextTruckType == MatchTruckTypeCall

SpecTruckType == InitTruckType /\ [][NextTruckType]_vars

\* the rules in the stated priority: substring, then the table, then the
\* similarity with its floor
TruckTypeByPriority(trucker_type_str, load_type_str) ==
    IF Contains(trucker_type_str, load_type_str)
       \/ Contains(load_type_str, trucker_type_str)
    THEN 100
    ELSE IF ~IsNone(TruckRulesFrom(1, trucker_type_str, load_type_str))
    THEN Get(TruckRulesFrom(1, trucker_type_str, load_type_str))
    ELSE Max(30, FuzzRatio(trucker_type_str, load_type_str))

\* C19: for a trucker type that is present the truck_type score is 1.0 on a
\* substring match; otherwise the table's 0.9, 0.1 or 0.6 when an entry
\* applies, whatever the similarity; otherwise the similarity, at least 0.3.
C19_TruckTypePriority ==
    (pc = "truck_type" /\ Len(calls) = 1 /\ ~IsNone(entities.truck_type))
        => calls[1] = TruckTypeByPriority(
                          Lower(StrTruckType(Get(entities.truck_type))),
                          Lower(catalogue[1].truck_type))

(***************************************************************************)
(* The three tiers of the phone extraction, each taken on its own.         *)
(***************************************************************************)
\* the first match of the direct pattern
PhoneTierDirect(text) ==
    LET First(ms) == IF Len(ms) > 0 THEN Some(MatchText(text, ms[1])) ELSE None
    IN First(FindAll(phone_pattern, text))

\* the five groups of the dotted-fragment match, when they look like a phone
PhoneTierFragments(text) ==
    LET Joined(number) == IF LooksLikePhone(number) THEN Some(number) ELSE None
        Of(m) == IF IsNone(m) THEN None
                 ELSE Joined(Join([k \in 1..5 |-> GroupText(text, Get(m), k)], ""))
    IN Of(Search(fragmented_phone_pattern, text))

\* the first five generic tokens, when there are three and they look like a phone
PhoneTierSequences(text) ==
    LET Joined(number) == IF LooksLikePhone(number) THEN Some(number) ELSE None
        Of(tokens) == IF Len(tokens) >= 3
                      THEN Joined(Join(SubSeq(tokens, 1, Min(5, Len(tokens))), ""))
                      ELSE None
    IN Of(MatchTexts(text, FindAll(number_sequence_pattern, text)))

\* C20: the phone number is the value of the first of the three tiers
\* (direct, dotted fragments, generic tokens) that accepts one over the whole
\* transcript text: a later tier counts only when every earlier one gave
\* nothing, and the result is one tier's value, never a combination.
C20_PhoneTiersInOrder ==
    pc = "extracted"
        => /\ ~IsNone(PhoneTierDirect(extracted.full_text))
                  => extracted.deterministic.fo_shared_number
                         = PhoneTierDirect(extracted.full_text)
           /\ (/\ IsNone(PhoneTierDirect(extracted.full_text))
               /\ ~IsNone(PhoneTierFragments(extracted.full_text)))
                  => extracted.deterministic.fo_shared_number
                         = PhoneTierFragments(extracted.full_text)
           /\ (/\ IsNone(PhoneTierDirect(extracted.full_text))
               /\ IsNone(PhoneTierFragments(extracted.full_text)))
                  => extracted.deterministic.fo_shared_number
                         = PhoneTierSequences(extracted.full_text)

\* the direct tier wins over a different number the fragment tier accepts
C20_Witness ==
    /\ pc = "extracted"
    /\ ~IsNone(PhoneTierDirect(extracted.full_text))
    /\ ~IsNone(PhoneTierFragments(extracted.full_text))
    /\ PhoneTierDirect(extracted.full_text) # PhoneTierFragments(extracted.full_text)
    /\ extracted.deterministic.fo_shared_number = PhoneTierDirect(extracted.full_text)

(***************************************************************************)
(* _identify_speaker_type applied to one speaker label and one utterance.  *)
(***************************************************************************)
SpeakerLabels ==
    {"Trucker", "Driver", "Shipper", "Client", "TI", "Operator", "Speaker 1",
     "A", ""}

UtteranceTexts ==
    {"hello", "My truck is ready", "We have load for you", "Need truck tomorrow",
     "the rate is 20000", "my truck, load available", ""}

InitSpeaker ==
    /\ pc = "speaker"
    /\ transcript \in {<<Turn(speaker, text)>> :
                           speaker \in SpeakerLabels, text \in UtteranceTexts}
    /\ calls = <<>>
    /\ entities = DefaultEntities
    /\ catalogue = <<>>
    /\ results = <<>>
    /\ extracted = NoExtraction
    /\ current_text = ""
    /\ config = Config
    /\ response = NoResponse
    /\ processing_history = <<>>

\* one call of _identify_speaker_type
IdentifySpeakerTypeCall ==
    /\ pc = "speaker"
    /\ calls = <<>>
    /\ calls' = <<IdentifySpeakerType(transcript[1].speaker, transcript[1].text)>>
    /\ UNCHANGED <<pc, entities, catalogue, results, transcript, extracted,
                   current_text, config,
                   response, processing_history>>

NextSpeaker == IdentifySpeakerTypeCall

SpecSpeaker == InitSpeaker /\ [][NextSpeaker]_vars

\* a label holds one of the indicators of the three lists
LabelHasIndicator(speaker) ==
    \/ AnyIn(fo_indicators, Lower(speaker))
    \/ AnyIn(shipper_indicators, Lower(speaker))
    \/ AnyIn(ti_indicators, Lower(speaker))

\* an utterance holds one of the content phrases
UtteranceHasCue(text) ==
    AnyIn(<<"my truck", "our vehicle", "we have truck", "load available",
            "we have load", "rate is", "need truck", "want vehicle",
            "cargo to move">>, Lower(text))

\* C21: the label decides first (trucker/driver: trucker; shipper/client:
\* the dispatcher role; ti/operator: dispatcher) whatever the utterance says;
\* the utterance is consulted only without a label indicator; the result is
\* 'unknown' exactly when neither the label nor the utterance matches.
C21_SpeakerPriority ==
    (pc = "speaker" /\ Len(calls) = 1)
        => LET speaker == transcript[1].speaker
               text == transcript[1].text
           IN /\ AnyIn(<<"trucker", "driver">>, Lower(speaker)) => calls[1] = "fo"
              /\ (/\ ~AnyIn(fo_indicators, Lower(speaker))
                  /\ AnyIn(<<"shipper", "client">>, Lower(speaker)))
                     => calls[1] = "ti"
              /\ (/\ ~AnyIn(fo_indicators, Lower(speaker))
                  /\ ~AnyIn(shipper_indicators, Lower(speaker))
                  /\ AnyIn(<<"ti", "operator">>, Lower(speaker)))
                     => calls[1] = "ti"
              /\ LabelHasIndicator(speaker)
                     => calls[1] = IdentifySpeakerType(speaker, "")
              /\ calls[1] = "unknown"
                     <=> (~LabelHasIndicator(speaker) /\ ~UtteranceHasCue(text))

(***************************************************************************)
(* _extract_locations_enhanced applied to one trucker text: one or two     *)
(* place mentions, each behind one of the words of location_pattern.       *)
(***************************************************************************)
PlaceWords == {"from", "to", "going"}

PlaceNames == {"Mumbai", "Bombay", "Pune"}

PlaceJoints == {" ", ", "}

RouteTexts ==
    {word \o " " \o place : word \in PlaceWords, place \in PlaceNames}
    \cup {word1 \o " " \o place1 \o joint \o word2 \o " " \o place2 :
              word1 \in PlaceWords, place1 \in PlaceNames, joint \in PlaceJoints,
              word2 \in PlaceWords, place2 \in PlaceNames}

InitRoute ==
    /\ pc = "route"
    /\ current_text \in RouteTexts
    /\ calls = <<>>
    /\ entities = DefaultEntities
    /\ catalogue = <<>>
    /\ results = <<>>
    /\ transcript = <<>>
    /\ extracted = NoExtraction
    /\ config = Config
    /\ response = NoResponse
    /\ processing_history = <<>>

\* one call of _extract_locations_enhanced
ExtractLocationsEnhancedCall ==
    /\ pc = "route"
    /\ calls = <<>>
    /\ calls' = <<ExtractLocationsEnhanced(current_text)>>
    /\ UNCHANGED <<pc, entities, catalogue, results, transcript, extracted,
                   current_text, config,
                   response, processing_history>>

NextRoute == ExtractLocationsEnhancedCall

SpecRoute == InitRoute /\ [][NextRoute]_vars

\* the call went through the fallback stage: no "from X to Y" match
FallbackStage(text) == IsNone(SearchI(from_to_pattern, text))

\* the normalized names of the mentions that location_pattern finds
CollectedPlaces(text) ==
    LET Names(ms) ==
            {NormalizeLocation(GroupText(text, ms[i], 1)) :
                 i \in {j \in 1..Len(ms) : Strip(GroupText(text, ms[j], 1)) # ""}}
    IN Names(FindAllI(location_pattern, text))

\* C22: in the fallback stage origin and destination are both assigned only
\* when at least two distinct normalized names were collected, so the stage
\* never assigns the same place to both.
C22_FallbackDistinctPlaces ==
    (/\ pc = "route" /\ Len(calls) = 1
     /\ FallbackStage(current_text)
     /\ ~IsNone(calls[1].from) /\ ~IsNone(calls[1].to))
        => /\ Cardinality(CollectedPlaces(current_text)) >= 2
           /\ calls[1].from # calls[1].to

(***************************************************************************)
(* The trucker-side facts of the record as a function of the transcript.   *)
(***************************************************************************)
\* the records extract_entities can return for the turns
FinalRecords(turns) ==
    {ApplyKnowledgeNormalization(
         BuildEntitiesObject(
             ExtractDeterministicEntities(drawn[1], drawn[2]),
             ExtractConversationalEntities(drawn[1])),
         drawn[1].full_text) :
         drawn \in UNION {{<<conversation_data, truck_type>> :
                               truck_type \in TruckTypeOutcomes(conversation_data)} :
                              conversation_data \in {ParseConversation(turns)}}}

TruckerFacts(e) ==
    [truck_type |-> e.truck_type, tonnage |-> e.tonnage,
     truck_length |-> e.truck_length, current_location |-> e.current_location,
     preferred_routes |-> e.preferred_routes, expected_rate |-> e.expected_rate]

IsTruckerTurn(turn) == IdentifySpeakerType(Lower(turn.speaker), turn.text) = "fo"

\* the same speakers in the same order, and the same text in every turn
\* that is classified trucker in either transcript
DifferOutsideTruckerTurns(turns, others) ==
    /\ Len(turns) = Len(others)
    /\ \A i \in 1..Len(turns) :
           /\ turns[i].speaker = others[i].speaker
           /\ \/ turns[i].text = others[i].text
              \/ ~IsTruckerTurn(turns[i]) /\ ~IsTruckerTurn(others[i])

\* C23: the trucker-side facts of the final record depend on the text of the
\* trucker's turns only: a transcript that differs only in the text of turns
\* classified shipper, dispatcher or unknown yields the same values.
C23_TruckerFactsFromTruckerTurns ==
    pc = "extracted"
        => \A others \in Transcripts :
               DifferOutsideTruckerTurns(transcript, others)
                   => \E e \in FinalRecords(others) :
                          TruckerFacts(e) = TruckerFacts(entities)

(***************************************************************************)
(* _fuzzy_match_truck_type applied to one trucker text of two phrases.     *)
(***************************************************************************)
TruckPhrases ==
    {"my truck", "open", "container", "good vehicle", "closd vehicle", "box",
     "trailer", "single axle", "multi axel", "Half Body"}

TruckTexts == {first \o " " \o second : first \in TruckPhrases, second \in TruckPhrases}

InitFuzzy ==
    /\ pc = "fuzzy"
    /\ current_text \in TruckTexts
    /\ calls = <<>>
    /\ entities = DefaultEntities
    /\ catalogue = <<>>
    /\ results = <<>>
    /\ transcript = <<>>
    /\ extracted = NoExtraction
    /\ config = Config
    /\ response = NoResponse
    /\ processing_history = <<>>

\* one call of _fuzzy_match_truck_type
FuzzyMatchTruckTypeCall ==
    /\ pc = "fuzzy"
    /\ calls = <<>>
    /\ \E truck_type \in FuzzyMatchTruckType(current_text) :
           calls' = <<truck_type>>
    /\ UNCHANGED <<pc, entities, catalogue, results, transcript, extracted,
                   current_text, config,
                   response, processing_history>>

NextFuzzy == FuzzyMatchTruckTypeCall

SpecFuzzy == InitFuzzy /\ [][NextFuzzy]_vars

\* the categories, in registration order, with an alias that is a substring
\* of the text
ExactCategories(text) ==
    {k \in 1..Len(truck_type_vocab) : AnyIn(truck_type_vocab[k][2], Lower(text))}

\* C24: when the text contains an alias of some category as a substring, the
\* extracted type is the first-registered category with an exact alias match,
\* even when an alias of an earlier category matches approximately.
C24_ExactBeforeApproximate ==
    (pc = "fuzzy" /\ Len(calls) = 1 /\ ExactCategories(current_text) # {})
        => calls[1] = Some(Upper(truck_type_vocab[
                          CHOOSE k \in ExactCategories(current_text) :
                              \A j \in ExactCategories(current_text) : k <= j][1]))

(***************************************************************************)
(* The zero-score filter of find_matching_loads.                           *)
(***************************************************************************)
\* the positions of the catalogue whose load is available
AvailablePositions == {k \in 1..Len(catalogue) : catalogue[k].status = "available"}

\* C25: find_matching_loads returns exactly one result per available load:
\* every available load scores above zero under the default weights, so the
\* filter "overall_score > 0" removes none.
C25_OneResultPerAvailableLoad ==
    pc = "matched"
        => /\ Len(results) = Cardinality(AvailablePositions)
           /\ \A k \in AvailablePositions :
                  /\ CalculateMatchScore(entities, catalogue[k]).overall_score > 0
                  /\ Cardinality({i \in 1..Len(results) :
                                      results[i].load_id = catalogue[k].id})
                         = Cardinality({j \in AvailablePositions :
                                            catalogue[j].id = catalogue[k].id})

\* a load that scores below every threshold is still returned
C25_Witness ==
    /\ pc = "matched"
    /\ Len(results) = MaxLoads
    /\ \E i \in 1..Len(results) :
           /\ results[i].recommendation = "reject"
           /\ results[i].overall_score < MATCH_THRESHOLD_LOW
           /\ results[i].detailed_scores.truck_type = 0

(***************************************************************************)
(* A record without a truck type.                                          *)
(***************************************************************************)
\* C26: without a truck_type the truck_type score of every load is 0.0, where
\* the other missing fields get a neutral value above zero, and so
\* mandatory_match is false in every result of that record.
C26_MissingTruckTypeFailsGate ==
    (pc = "matched" /\ IsNone(entities.truck_type))
        => /\ \A k \in 1..Len(catalogue) :
                  MatchTruckType(entities.truck_type, catalogue[k].truck_type) = 0
           /\ \A i \in 1..Len(results) :
                  /\ results[i].detailed_scores.truck_type = 0
                  /\ results[i].detailed_scores.product > 0
                  /\ IsNone(entities.tonnage) => results[i].detailed_scores.tonnage > 0
                  /\ IsNone(entities.truck_length)
                         => results[i].detailed_scores.length > 0
                  /\ ~results[i].mandatory_match

\* the gate fails on the truck type alone: the tonnage fits
C26_Witness ==
    /\ pc = "matched"
    /\ IsNone(entities.truck_type)
    /\ \E i \in 1..Len(results) :
           /\ results[i].detailed_scores.truck_type = 0
           /\ results[i].detailed_scores.tonnage = 100
           /\ ~results[i].mandatory_match

(***************************************************************************)
(* find_matching_loads for truckers that differ in their route: the        *)
(* places of _build_entities_object's preferred_routes, origin first.      *)
(***************************************************************************)
RoutePool ==
    {<<>>, <<"Tumakuru">>, <<"Tumakuru", "Madurai">>, <<"Madurai", "Tumakuru">>,
     <<"Chennai", "Bengaluru">>, <<"Bengaluru", "Chennai">>, <<"Madura", "Tumkur">>}

InitDirection ==
    /\ pc = "input"
    /\ entities \in {[DefaultEntities EXCEPT
                         !.truck_type = Some("OPEN"),
                         !.preferred_routes = routes,
                         !.current_location =
                             IF Len(routes) > 0 THEN Some(routes[1]) ELSE None] :
                         routes \in RoutePool}
    /\ catalogue \in Catalogues
    /\ results = <<>>
    /\ transcript = <<>>
    /\ extracted = NoExtraction
    /\ current_text = ""
    /\ calls = <<>>
    /\ config = Config
    /\ response = NoResponse
    /\ processing_history = <<>>

SpecDirection == InitDirection /\ [][Next]_vars

\* the record of the trucker with origin and destination exchanged
SwapDirection(e) ==
    [e EXCEPT !.preferred_routes = Reverse(@),
              !.current_location = IF Len(e.preferred_routes) > 0
                                   THEN Some(e.preferred_routes[Len(e.preferred_routes)])
                                   ELSE None]

\* the load runs from the trucker's destination to the trucker's origin
RunsBackwards(e, load) ==
    /\ Len(e.preferred_routes) = 2
    /\ e.preferred_routes[1] # e.preferred_routes[2]
    /\ load.from_location = e.preferred_routes[2]
    /\ load.to_location = e.preferred_routes[1]

\* C27: route scoring ignores direction: with the trucker's origin and
\* destination exchanged every load gets the same result, and a load that runs
\* from the trucker's destination to the trucker's origin scores 1.0 on
\* route_from and on route_to.
C27_RouteDirectionIgnored ==
    pc = "matched"
        => /\ FindMatches(SwapDirection(entities), catalogue) = results
           /\ \A k \in 1..Len(catalogue) :
                  DetailedScores(SwapDirection(entities), catalogue[k])
                      = DetailedScores(entities, catalogue[k])
           /\ \A i \in 1..Len(results) :
                  RunsBackwards(entities, LoadOf(results[i].load_id))
                      => /\ results[i].detailed_scores.route_from = 100
                         /\ results[i].detailed_scores.route_to = 100

\* a load against the trucker's direction is returned with both route scores 1.0
C27_Witness ==
    /\ pc = "matched"
    /\ \E i \in 1..Len(results) :
           /\ RunsBackwards(entities, LoadOf(results[i].load_id))
           /\ results[i].detailed_scores.route_from = 100
           /\ results[i].detailed_scores.route_to = 100

(***************************************************************************)
(* The phone number and the flag of the same extraction.                   *)
(***************************************************************************)
\* C28: whenever the extraction populates phone_number, by any of the three
\* tiers, the flag was_number_exchanged of the same transcript is true.
C28_PhoneImpliesNumberExchanged ==
    (pc = "extracted" /\ ~IsNone(entities.phone_number))
        => /\ extracted.conversational.was_number_exchanged
           /\ entities.special_requirements[6] = "was_number_exchanged:True"

(***************************************************************************)
(* TruckingLoadMatcher (main.py): process_transcript and                   *)
(* _determine_business_action.  The result is the MatchResult without its  *)
(* reasoning text and timestamp.                                           *)
(***************************************************************************)
\* an element of available_loads that is not a Load object (None): the list
\* is not type-checked, and "load.status" raises AttributeError on it
NotALoad == [id |-> "None"]

IsLoad(load) == "status" \in DOMAIN load

\* find_matching_loads raises instead of returning
MatchingRaises(trucker_req, loads) ==
    \E k \in 1..Len(loads) :
        IF IsLoad(loads[k])
        THEN IsMatchable(loads[k]) /\ ScoreRaises(trucker_req, loads[k])
        ELSE TRUE

\* max(matches, key = overall_score).overall_score
BestScore(matches) ==
    CHOOSE best \in {matches[i].overall_score : i \in 1..Len(matches)} :
        \A i \in 1..Len(matches) : matches[i].overall_score <= best

\* _determine_business_action: the action, without the reasoning text
DetermineBusinessAction(e, matches) ==
    IF Len(matches) = 0
    THEN LET has_truck_info == ~IsNone(e.truck_type) \/ ~IsNone(e.tonnage)
             has_location_info ==
                 ~IsNone(e.current_location) \/ Len(e.preferred_routes) > 0
         IN IF ~has_truck_info /\ ~has_location_info THEN "reject"
            ELSE "create_lead"
    ELSE IF BestScore(matches) >= 8000 THEN "auto_approve"
    ELSE IF BestScore(matches) >= 6000 THEN "human_review"
    ELSE IF BestScore(matches) >= 4000 THEN "create_lead"
    ELSE "reject"

MatchResult(extracted_entities, load_matches, business_recommendation) ==
    [extracted_entities |-> extracted_entities, load_matches |-> load_matches,
     business_recommendation |-> business_recommendation]

\* the result of the "except Exception" clause
ErrorResult == MatchResult(DefaultEntities, <<>>, "reject")

\* an exception of the agents leaves process_transcript
ProcessOutcomes_Propagating(turns, loads) ==
    {IF MatchingRaises(e, loads)
     THEN [pc |-> "raised", response |-> NoResponse]
     ELSE CHOOSE outcome \in
              {[pc |-> "processed",
                response |-> Some(MatchResult(e, load_matches,
                                      DetermineBusinessAction(e, load_matches)))] :
                   load_matches \in {FindMatches(e, loads)}} : TRUE :
         e \in FinalRecords(turns)}

\* the ways process_transcript(transcript, available_loads) can end
ProcessOutcomes(turns, loads) ==
    {IF MatchingRaises(e, loads)
     THEN [pc |-> "processed", response |-> Some(ErrorResult)]
     ELSE CHOOSE outcome \in
              {[pc |-> "processed",
                response |-> Some(MatchResult(e, load_matches,
                                      DetermineBusinessAction(e, load_matches)))] :
                   load_matches \in {FindMatches(e, loads)}} : TRUE :
         e \in FinalRecords(turns)}

OrchestratorTurns ==
    TurnPool \cup ScenarioTurns
    \cup {Turn("Trucker", "I need an open vehicle, going from Tumakuru to Madurai")}

\* the lists passed as available_loads: at most one load, with or without an
\* element that is not a Load
LoadLists ==
    {c \in Catalogues : Len(c) <= 1}
    \cup {<<NotALoad>>, <<SampleLoad, NotALoad>>, <<NotALoad, SampleLoad>>}

InitOrchestrator ==
    /\ pc = "transcript"
    /\ transcript \in {<<turn>> : turn \in OrchestratorTurns}
    /\ catalogue \in LoadLists
    /\ entities = DefaultEntities
    /\ results = <<>>
    /\ extracted = NoExtraction
    /\ current_text = ""
    /\ calls = <<>>
    /\ config = Config
    /\ response = NoResponse
    /\ processing_history = <<>>

\* process_transcript(transcript, available_loads)
ProcessTranscript ==
    /\ pc = "transcript"
    /\ \E outcome \in ProcessOutcomes(transcript, catalogue) :
           /\ pc' = outcome.pc
           /\ response' = outcome.response
    /\ UNCHANGED <<entities, catalogue, results, transcript, extracted, current_text,
                   calls, config, processing_history>>

NextOrchestrator == ProcessTranscript

SpecOrchestrator == InitOrchestrator /\ [][NextOrchestrator]_vars

\* C29: process_transcript never lets an exception out: when the matching
\* (or the extraction) raises, the call returns a result with an empty
\* ExtractedEntities, no load matches and the recommendation 'reject', and
\* processing_history is as it was.
C29_ExceptionsBecomeReject ==
    /\ pc # "raised"
    /\ processing_history = <<>>
    /\ pc = "processed"
           => /\ ~IsNone(response)
              /\ (\A e \in FinalRecords(transcript) : MatchingRaises(e, catalogue))
                     => response = Some(ErrorResult)

\* the matching raised behind an available load, and the call returned 'reject'
C29_Witness ==
    /\ pc = "processed"
    /\ catalogue = <<SampleLoad, NotALoad>>
    /\ \A e \in FinalRecords(transcript) : MatchingRaises(e, catalogue)
    /\ response = Some(ErrorResult)
    /\ processing_history = <<>>

\* C30: whenever the call returned a non-empty list of matches, its
\* business_recommendation is the recommendation of the highest-scoring
\* match: _determine_business_action and _get_recommendation put the same
\* overall_score in the same tier.
C30_BusinessActionIsBestRecommendation ==
    pc = "processed" /\ ~IsNone(response)
        => \A i \in 1..Len(Get(response).load_matches) :
               Get(response).load_matches[i].overall_score
                       = BestScore(Get(response).load_matches)
                   => Get(response).business_recommendation
                          = Get(response).load_matches[i].recommendation

====
